---------------------------- MODULE Spec2Model ----------------------------
(***************************************************************************)
(* pymkmkit: the reaction-network energy evaluator                         *)
(* (src/pymkmkit/network_reader.py).                                       *)
(*                                                                         *)
(* Numbers.  Python floats are binary floating-point numbers; every        *)
(* arithmetic operation returns the exact result rounded to the nearest    *)
(* representable value, ties to even.  The model keeps that: a number is   *)
(* an exact rational <<n, d>> (d > 0, lowest terms) and FAdd, FSub, FMul,  *)
(* FDiv round the exact result to Prec significant bits.  Prec is scaled   *)
(* down from the 53 bits of a double so that TLC's integers can hold the   *)
(* values; the exponent range is not bounded and NaN and the infinities    *)
(* are not modelled (every input is a finite number).                      *)
(***************************************************************************)
EXTENDS Integers, Sequences, FiniteSets, TLC

VARIABLES
    pc,      \* position of the running call
    disk,    \* the files below the network file's directory: path -> content
    doc,     \* the parsed network document (yaml.safe_load of the network file)
    states,  \* dict[str, State]: the states loaded so far
    steps,   \* list[ElementaryStep]: the results appended so far
    paths,   \* list[ReactionPath]: the results appended so far
    cur,     \* loop cursor / locals of the running call
    call,    \* arguments of the function under check
    ret      \* what the call returned or raised; NoRet while it runs

vars == <<pc, disk, doc, states, steps, paths, cur, call, ret>>

---------------------------------------------------------------------------
(* Bounds of the model.                                                    *)

\* significant bits of a float (a double has 53)
Prec == 4
\* longest term list handed to sum_energy / sum_zpe on their own
MaxTerms == 2

---------------------------------------------------------------------------
(* Exact rational arithmetic.                                              *)

Abs(x) == IF x < 0 THEN -x ELSE x

RECURSIVE GCD(_, _)
GCD(a, b) == IF b = 0 THEN a ELSE GCD(b, a % b)

RECURSIVE Pow2(_)
Pow2(k) == IF k <= 0 THEN 1 ELSE 2 * Pow2(k - 1)

\* n/d with the common factor g taken out and a positive denominator
Reduce(n, d, g) == <<((IF d < 0 THEN -1 ELSE 1) * n) \div g, Abs(d) \div g>>

\* n/d in lowest terms with a positive denominator
Rat(n, d) == IF n = 0 THEN <<0, 1>> ELSE Reduce(n, d, GCD(Abs(n), Abs(d)))

Int2R(k) == <<k, 1>>
Zero == <<0, 1>>
One == <<1, 1>>

RAdd(x, y) == Rat(x[1] * y[2] + y[1] * x[2], x[2] * y[2])
RNeg(x) == <<-x[1], x[2]>>
RSub(x, y) == RAdd(x, RNeg(y))
RMul(x, y) == Rat(x[1] * y[1], x[2] * y[2])
RDiv(x, y) == Rat(x[1] * y[2], x[2] * y[1])
RLess(x, y) == x[1] * y[2] < y[1] * x[2]
RAbs(x) == <<Abs(x[1]), x[2]>>

---------------------------------------------------------------------------
(* Floating point: round to nearest, ties to even, Prec significant bits.  *)

\* a/b > 0 scaled by 2^-e so that 2^(Prec-1) <= a/b < 2^Prec
RECURSIVE Scale(_, _, _)
Scale(a, b, e) ==
    IF a >= Pow2(Prec) * b THEN Scale(a, 2 * b, e + 1)
    ELSE IF a < Pow2(Prec - 1) * b THEN Scale(2 * a, b, e - 1)
    ELSE <<a, b, e>>

\* a/b rounded to the nearest integer, ties to the even one
RoundHalfEven(a, b) ==
    IF 2 * (a % b) > b \/ (2 * (a % b) = b /\ (a \div b) % 2 = 1)
    THEN (a \div b) + 1 ELSE a \div b

\* m * 2^e
Scaled(m, e) == IF e >= 0 THEN <<m * Pow2(e), 1>> ELSE Rat(m, Pow2(-e))

\* sign sg, scaled magnitude s = <<a, b, e>>
Rounded(sg, s) == Scaled(sg * RoundHalfEven(s[1], s[2]), s[3])

\* the float nearest to the rational x
Fl(x) ==
    IF x[1] = 0 THEN Zero
    ELSE Rounded(IF x[1] < 0 THEN -1 ELSE 1, Scale(Abs(x[1]), x[2], 0))

IsFloat(x) == Fl(x) = x

\* Python's float +, -, *, / (the divisor is never zero where FDiv is used)
FAdd(x, y) == Fl(RAdd(x, y))
FSub(x, y) == Fl(RSub(x, y))
FMul(x, y) == Fl(RMul(x, y))
FDiv(x, y) == Fl(RDiv(x, y))

---------------------------------------------------------------------------
(* Values read from YAML, and results of calls.                            *)

\* A YAML scalar as yaml.safe_load returns it: a number, a string that is
\* not the text of a number, null (Python None), or Absent for a key that
\* the mapping does not hold.
Num(x) == [t |-> "num", v |-> x, s |-> ""]
Str(s) == [t |-> "str", v |-> Zero, s |-> s]
Null == [t |-> "null", v |-> Zero, s |-> ""]
Lst == [t |-> "list", v |-> Zero, s |-> "['surf']"]
Absent == [t |-> "absent", v |-> Zero, s |-> ""]
Bool(b) == [t |-> "bool", v |-> IF b THEN One ELSE Zero, s |-> ""]

\* mapping.get(key, default)
Get(raw, default) == IF raw.t = "absent" THEN default ELSE raw

\* float(raw) succeeds for a number (a bool is one: float(True) is 1.0) and
\* raises TypeError (None, a list) or ValueError (such a string) otherwise;
\* both are caught where it is used
CanFloat(raw) == raw.t \in {"num", "bool"}
ToFloat(raw) == Fl(raw.v)

\* str(raw) as an f-string shows it
Repr(raw) ==
    IF raw.t \in {"str", "list"} THEN raw.s ELSE IF raw.t = "num" THEN "<number>" ELSE "None"

\* f"{x:g}" of a float, kept as a token of the equation text
FmtG(x) == [g |-> x]

\* Python None as a name (term.get("name") of a term without one)
None == "None"

\* a call returns a value or raises an exception
NoExc == [type |-> "", msg |-> <<>>]
Ok(v) == [ok |-> TRUE, val |-> v, exc |-> NoExc]
Raise(type, msg) == [ok |-> FALSE, val |-> <<>>, exc |-> [type |-> type, msg |-> msg]]
NoRet == [fn |-> "", r |-> Ok(<<>>)]

\* " + ".join(pieces)
RECURSIVE JoinPlus(_)
JoinPlus(pieces) ==
    IF Len(pieces) = 0 THEN <<>>
    ELSE IF Len(pieces) = 1 THEN pieces[1]
    ELSE pieces[1] \o <<" + ">> \o JoinPlus(Tail(pieces))

---------------------------------------------------------------------------
(* Energy/ZPE aggregator: _sum_energy and _sum_zpe.                        *)

\* the lookup failing as states[name] would: a KeyError
UnknownState_KeyError(name) == Raise("KeyError", <<name>>)

UnknownState(name) ==
    Raise("ValueError", <<"Unknown state '", name, "' referenced in network step">>)

InvalidStoich(name, stoich) ==
    Raise("ValueError", <<"Invalid stoichiometry for state '", name, "': ", Repr(stoich)>>)

\* the for loop of _sum_energy from term i on
RECURSIVE sum_energy_loop(_, _, _, _, _)
\* the body of the loop for one term: name, stoich as read from the term
sum_energy_term(terms, sts, i, total, pieces, name, stoich) ==
    IF name \notin DOMAIN sts THEN UnknownState(name)
    ELSE IF ~CanFloat(stoich) THEN InvalidStoich(name, stoich)
    ELSE sum_energy_loop(terms, sts, i + 1,
             FAdd(total, FMul(ToFloat(stoich), sts[name].electronic_energy)),
             Append(pieces, <<FmtG(ToFloat(stoich)), "*E(", name, ")">>))

sum_energy_loop(terms, sts, i, total, pieces) ==
    IF i > Len(terms) THEN Ok(<<total, JoinPlus(pieces)>>)
    ELSE sum_energy_term(terms, sts, i, total, pieces, terms[i].name,
                         Get(terms[i].stoichiometry, Num(One)))

sum_energy(terms, sts) ==
    IF Len(terms) = 0 THEN Ok(<<Zero, <<"0">>>>)
    ELSE sum_energy_loop(terms, sts, 1, Zero, <<>>)

\* zpe_term with the division by the normalization left out
zpe_term_undivided(stoich_value, state, normalization_value) ==
    FMul(stoich_value, state.zpe_energy)

\* one term's contribution in _sum_zpe: zpe_term after the if/else
zpe_term(stoich_value, state, normalization_value) ==
    IF state.paired_modes_averaged
    THEN FMul(stoich_value, state.zpe_energy)
    ELSE FDiv(FMul(stoich_value, state.zpe_energy), normalization_value)

zpe_piece(stoich_value, state, normalization_value) ==
    IF state.paired_modes_averaged
    THEN <<FmtG(stoich_value), "*ZPE(", state.name, ")">>
    ELSE <<"(", FmtG(stoich_value), "*ZPE(", state.name, ")/", FmtG(normalization_value), ")">>

\* the for loop of _sum_zpe from term i on
RECURSIVE sum_zpe_loop(_, _, _, _, _, _)
\* the body of the loop for one term: name, stoich as read from the term
sum_zpe_term(terms, sts, normalization_value, i, total, pieces, name, stoich) ==
    IF name \notin DOMAIN sts THEN UnknownState(name)
    ELSE IF ~CanFloat(stoich) THEN InvalidStoich(name, stoich)
    ELSE IF ~sts[name].paired_modes_averaged /\ normalization_value = Zero
         THEN Raise("ZeroDivisionError", <<"float division by zero">>)
    ELSE sum_zpe_loop(terms, sts, normalization_value, i + 1,
             FAdd(total, zpe_term(ToFloat(stoich), sts[name], normalization_value)),
             Append(pieces, zpe_piece(ToFloat(stoich), sts[name], normalization_value)))

sum_zpe_loop(terms, sts, normalization_value, i, total, pieces) ==
    IF i > Len(terms) THEN Ok(<<total, JoinPlus(pieces)>>)
    ELSE sum_zpe_term(terms, sts, normalization_value, i, total, pieces,
                      terms[i].name, Get(terms[i].stoichiometry, Num(One)))

\* _sum_zpe without the early return for an empty list
sum_zpe_unguarded(terms, sts, normalization_value) ==
    sum_zpe_loop(terms, sts, normalization_value, 1, Zero, <<>>)

sum_zpe(terms, sts, normalization_value) ==
    IF Len(terms) = 0 THEN Ok(<<Zero, <<"0">>>>)
    ELSE sum_zpe_loop(terms, sts, normalization_value, 1, Zero, <<>>)

---------------------------------------------------------------------------
(* Inputs of the aggregator on its own.                                    *)

AggNames == {"IS", "TS"}

\* a loaded State: name, file, electronic_energy, zpe_energy, paired flag
State(name, file, e, z, p) ==
    [name |-> name, file |-> file, electronic_energy |-> e,
     zpe_energy |-> z, paired_modes_averaged |-> p]

\* (electronic energy, ZPE) of a state, in eV
AggEnergetics == {<<Rat(-1, 1), Rat(1, 2)>>, <<Rat(3, 2), Rat(3, 1)>>}

AggStateMaps ==
    UNION {[D -> AggEnergetics \X BOOLEAN] : D \in SUBSET AggNames}

MkStates(m) ==
    [n \in DOMAIN m |-> State(n, n, m[n][1][1], m[n][1][2], m[n][2])]

Stoichs == {Absent, Num(Rat(2, 1)), Num(Rat(-3, 2)), Str("two")}

AggTermSet == [name : AggNames, stoichiometry : Stoichs]

SeqsUpTo(S, n) == UNION {[1..k -> S] : k \in 0..n}

AggNormalizations == {Zero, Rat(2, 1), Rat(3, 1)}

InitAgg ==
    /\ pc = "agg"
    /\ disk = <<>>
    /\ doc = <<>>
    /\ \E m \in AggStateMaps : states = MkStates(m)
    /\ steps = <<>>
    /\ paths = <<>>
    /\ cur = <<>>
    /\ \E ts \in SeqsUpTo(AggTermSet, MaxTerms), nv \in AggNormalizations :
           call = [terms |-> ts, normalization_value |-> nv]
    /\ ret = NoRet

CallSumEnergy ==
    /\ pc = "agg"
    /\ ret' = [fn |-> "sum_energy", r |-> sum_energy(call.terms, states)]
    /\ pc' = "done"
    /\ UNCHANGED <<disk, doc, states, steps, paths, cur, call>>

CallSumZpe ==
    /\ pc = "agg"
    /\ ret' = [fn |-> "sum_zpe",
               r |-> sum_zpe(call.terms, states, call.normalization_value)]
    /\ pc' = "done"
    /\ UNCHANGED <<disk, doc, states, steps, paths, cur, call>>

NextAgg == CallSumEnergy \/ CallSumZpe

SpecAgg == InitAgg /\ [][NextAgg]_vars

---------------------------------------------------------------------------
(* Claims about the aggregator (checked under SpecAgg).                    *)

\* a term's stoichiometry as a number: 1 when the term gives none
StoichOf(term) ==
    IF term.stoichiometry.t = "absent" THEN One ELSE Fl(term.stoichiometry.v)

\* the ZPE contribution of a term as the normalization rule states it
RuleContribution(term, sts, n) ==
    IF sts[term.name].paired_modes_averaged
    THEN FMul(StoichOf(term), sts[term.name].zpe_energy)
    ELSE FDiv(FMul(StoichOf(term), sts[term.name].zpe_energy), n)

\* the first k contributions added up in the order of the list, from 0.0
RECURSIVE RuleZpeSum(_, _, _, _)
RuleZpeSum(terms, sts, n, k) ==
    IF k = 0 THEN Zero
    ELSE FAdd(RuleZpeSum(terms, sts, n, k - 1), RuleContribution(terms[k], sts, n))

SumZpeReturned == pc = "done" /\ ret.fn = "sum_zpe" /\ ret.r.ok

\* C1: whenever sum_zpe returns, its total is the sum over the terms of
\* stoichiometry * zpe_energy for a state with paired_modes_averaged = true
\* and of (stoichiometry * zpe_energy) / normalization for a state with
\* paired_modes_averaged = false.
C1_SumZpeRule ==
    SumZpeReturned =>
        ret.r.val[1] = RuleZpeSum(call.terms, states, call.normalization_value,
                                  Len(call.terms))

\* a paired and an unpaired state summed under normalization 3, where the
\* division changes the total
C1_Witness ==
    /\ SumZpeReturned
    /\ Len(call.terms) = 2
    /\ call.normalization_value = Rat(3, 1)
    /\ states[call.terms[1].name].paired_modes_averaged
    /\ ~states[call.terms[2].name].paired_modes_averaged
    /\ ret.r.val[1] # FAdd(FMul(StoichOf(call.terms[1]), states[call.terms[1].name].zpe_energy),
                           FMul(StoichOf(call.terms[2]), states[call.terms[2].name].zpe_energy))

\* C8: for an empty term list sum_energy and sum_zpe both return
\* (0.0, "0"), whatever the state map and the normalization value.
C8_EmptyTerms ==
    (pc = "done" /\ Len(call.terms) = 0) => ret.r = Ok(<<Zero, <<"0">>>>)

\* sum_zpe of the empty list with normalization 0 and both states loaded
C8_Witness ==
    /\ pc = "done"
    /\ ret.fn = "sum_zpe"
    /\ call.terms = <<>>
    /\ call.normalization_value = Zero
    /\ DOMAIN states = AggNames
    /\ ret.r.ok

---------------------------------------------------------------------------
(* Step evaluator: _compute_barrier, _compute_adsorption_heat and the body *)
(* of the for loop of read_network.                                        *)

\* A direction block {ts, is, normalization}.  A list that the mapping does
\* not hold reads as [] and a block that the step does not hold as {}: both
\* are the empty sequence / EmptyDir here.
Dir(ts, is, normalization) == [ts |-> ts, is |-> is, normalization |-> normalization]
EmptyDir == Dir(<<>>, <<>>, Absent)

InvalidNormalization(normalization) ==
    Raise("ValueError", <<"Invalid normalization value: ", Repr(normalization)>>)
ZeroNormalization == Raise("ValueError", <<"Normalization cannot be zero">>)

\* f"({a} - ({b})) / {n:g}" and f"({a} - ({b}))"
ElectronicEquation(a, b, nv) == <<"(">> \o a \o <<" - (">> \o b \o <<")) / ", FmtG(nv)>>
ZpeEquation(a, b) == <<"(">> \o a \o <<" - (">> \o b \o <<"))">>
FullEquation(el, zpe) ==
    <<"E_el: ">> \o el \o <<"; ZPE corr: ">> \o zpe
        \o <<"; Total: (">> \o el \o <<") + (">> \o zpe \o <<")">>

\* electronic, zpe correction, total and equation from the four sums:
\* lines 192-210 (and 229-247)
barrier_value(electronic, zpe_correction, el_eq, zpe_eq) ==
    Ok(<<electronic, zpe_correction, FAdd(electronic, zpe_correction),
         FullEquation(el_eq, zpe_eq)>>)

\* the electronic barrier left undivided by the normalization
barrier_tail_undivided(hi_energy, lo_energy, normalization_value, hi_zpe, lo_zpe) ==
    IF ~hi_zpe.ok THEN hi_zpe
    ELSE IF ~lo_zpe.ok THEN lo_zpe
    ELSE barrier_value(
             FSub(hi_energy.val[1], lo_energy.val[1]),
             FSub(hi_zpe.val[1], lo_zpe.val[1]),
             ElectronicEquation(hi_energy.val[2], lo_energy.val[2], normalization_value),
             ZpeEquation(hi_zpe.val[2], lo_zpe.val[2]))

\* lines 192-205 (and 229-242)
barrier_tail(hi_energy, lo_energy, normalization_value, hi_zpe, lo_zpe) ==
    IF ~hi_zpe.ok THEN hi_zpe
    ELSE IF ~lo_zpe.ok THEN lo_zpe
    ELSE barrier_value(
             FDiv(FSub(hi_energy.val[1], lo_energy.val[1]), normalization_value),
             FSub(hi_zpe.val[1], lo_zpe.val[1]),
             ElectronicEquation(hi_energy.val[2], lo_energy.val[2], normalization_value),
             ZpeEquation(hi_zpe.val[2], lo_zpe.val[2]))

\* a zero normalization read as 1 (`normalization or 1`)
barrier_normalized_zero_as_one(hi_terms, lo_terms, sts, hi_energy, lo_energy, normalization) ==
    IF ~CanFloat(normalization) THEN InvalidNormalization(normalization)
    ELSE barrier_tail(hi_energy, lo_energy,
                      IF ToFloat(normalization) = Zero THEN One ELSE ToFloat(normalization),
                      sum_zpe(hi_terms, sts, IF ToFloat(normalization) = Zero THEN One
                                              ELSE ToFloat(normalization)),
                      sum_zpe(lo_terms, sts, IF ToFloat(normalization) = Zero THEN One
                                              ELSE ToFloat(normalization)))

\* the normalization checks, lines 183-190 (and 220-227), then the rest
barrier_normalized(hi_terms, lo_terms, sts, hi_energy, lo_energy, normalization) ==
    IF ~CanFloat(normalization) THEN InvalidNormalization(normalization)
    ELSE IF ToFloat(normalization) = Zero THEN ZeroNormalization
    ELSE barrier_tail(hi_energy, lo_energy, ToFloat(normalization),
                      sum_zpe(hi_terms, sts, ToFloat(normalization)),
                      sum_zpe(lo_terms, sts, ToFloat(normalization)))

\* the two energy sums come first, lines 180-181 (and 217-218)
barrier_from(hi_terms, lo_terms, sts, hi_energy, lo_energy, normalization) ==
    IF ~hi_energy.ok THEN hi_energy
    ELSE IF ~lo_energy.ok THEN lo_energy
    ELSE barrier_normalized(hi_terms, lo_terms, sts, hi_energy, lo_energy, normalization)

compute_barrier(direction_data, sts) ==
    barrier_from(direction_data.ts, direction_data.is, sts,
                 sum_energy(direction_data.ts, sts), sum_energy(direction_data.is, sts),
                 Get(direction_data.normalization, Num(One)))

\* the adsorption heat with initial and final state exchanged
compute_adsorption_heat_exchanged(step_data, sts) ==
    barrier_from(step_data.is, step_data.fs, sts,
                 sum_energy(step_data.is, sts), sum_energy(step_data.fs, sts),
                 Get(step_data.normalization, Num(One)))

compute_adsorption_heat(step_data, sts) ==
    barrier_from(step_data.fs, step_data.is, sts,
                 sum_energy(step_data.fs, sts), sum_energy(step_data.is, sts),
                 Get(step_data.normalization, Num(One)))

ElementaryStep(name, step_type, reaction, fwd, rev, heat) ==
    [name |-> name, step_type |-> step_type, reaction |-> reaction,
     forward_equation |-> fwd[4], reverse_equation |-> rev[4],
     forward_barrier_electronic |-> fwd[1], reverse_barrier_electronic |-> rev[1],
     forward_zpe_correction |-> fwd[2], reverse_zpe_correction |-> rev[2],
     forward_total_barrier |-> fwd[3], reverse_total_barrier |-> rev[3],
     reaction_heat_electronic |-> heat[1], reaction_heat_zpe_correction |-> heat[2],
     reaction_heat_total |-> heat[3]]

InvalidStepType(step_type) ==
    Raise("ValueError", <<"Invalid network step type '", Repr(step_type),
                          "'. Expected 'surf' or 'ads'.">>)

\* step.get("name", "unnamed_step") and step.get("type", "surf")
StepName(step) == Repr(Get(step.name, Str("unnamed_step")))
StepType(step) == Repr(Get(step.type, Str("surf")))

\* the `ads` branch, lines 266-279
ads_step(step, forward) ==
    IF ~forward.ok THEN forward
    ELSE Ok(ElementaryStep(StepName(step), StepType(step), step.reaction, forward.val,
                           <<Zero, Zero, Zero, <<"N/A">>>>,
                           <<forward.val[1], forward.val[2], forward.val[3]>>))

read_ads_step(step, sts) == ads_step(step, compute_adsorption_heat(step, sts))

\* the total heat derived from the two other heats
surf_step_heat_derived(step, forward, reverse) ==
    IF ~forward.ok THEN forward
    ELSE IF ~reverse.ok THEN reverse
    ELSE Ok(ElementaryStep(StepName(step), StepType(step), step.reaction, forward.val,
                           reverse.val,
                           <<FSub(forward.val[1], reverse.val[1]),
                             FSub(forward.val[2], reverse.val[2]),
                             FAdd(FSub(forward.val[1], reverse.val[1]),
                                  FSub(forward.val[2], reverse.val[2]))>>))

\* the total heat taken as reverse minus forward
surf_step_heat_reversed(step, forward, reverse) ==
    IF ~forward.ok THEN forward
    ELSE IF ~reverse.ok THEN reverse
    ELSE Ok(ElementaryStep(StepName(step), StepType(step), step.reaction, forward.val,
                           reverse.val,
                           <<FSub(forward.val[1], reverse.val[1]),
                             FSub(forward.val[2], reverse.val[2]),
                             FSub(reverse.val[3], forward.val[3])>>))

\* the `surf` branch, lines 280-298
surf_step(step, forward, reverse) ==
    IF ~forward.ok THEN forward
    ELSE IF ~reverse.ok THEN reverse
    ELSE Ok(ElementaryStep(StepName(step), StepType(step), step.reaction, forward.val,
                           reverse.val,
                           <<FSub(forward.val[1], reverse.val[1]),
                             FSub(forward.val[2], reverse.val[2]),
                             FSub(forward.val[3], reverse.val[3])>>))

\* the reverse barrier computed from the forward block as well
read_surf_step_forward_twice(step, sts) ==
    surf_step(step, compute_barrier(step.forward, sts), compute_barrier(step.forward, sts))

\* the top-level fs, is and normalization evaluated as well
read_surf_step_top_level(step, sts) ==
    IF ~compute_adsorption_heat(step, sts).ok THEN compute_adsorption_heat(step, sts)
    ELSE surf_step(step, compute_barrier(step.forward, sts),
                   compute_barrier(step.backward, sts))

read_surf_step(step, sts) ==
    surf_step(step, compute_barrier(step.forward, sts), compute_barrier(step.backward, sts))

\* a YAML list is not hashable: testing it for membership in a set raises
Unhashable(raw) == raw.t = "list"
UnhashableType == Raise("TypeError", <<"unhashable type: 'list'">>)

\* step.get("type", "surf") is neither "surf" nor "ads"
InvalidType(step_type) == step_type \notin {Str("surf"), Str("ads")}

\* one iteration of the for loop of read_network, lines 259-317
read_step(step, sts) ==
    IF Unhashable(Get(step.type, Str("surf"))) THEN UnhashableType
    ELSE IF InvalidType(Get(step.type, Str("surf")))
    THEN InvalidStepType(Get(step.type, Str("surf")))
    ELSE IF Get(step.type, Str("surf")) = Str("ads") THEN read_ads_step(step, sts)
    ELSE read_surf_step(step, sts)

---------------------------------------------------------------------------
(* read_network: the loop over the step definitions of `network`.          *)

\* a loop that skips a step definition it cannot evaluate
ReadNetworkStep_skipping ==
    /\ pc = "network"
    /\ cur.i <= Len(doc.network)
    /\ \E r \in {read_step(doc.network[cur.i], states)} :
           steps' = IF r.ok THEN Append(steps, r.val) ELSE steps
    /\ cur' = [cur EXCEPT !.i = cur.i + 1]
    /\ UNCHANGED <<pc, ret, disk, doc, states, paths, call>>

\* a loop that puts each result in front of the earlier ones
ReadNetworkStep_prepending ==
    /\ pc = "network"
    /\ cur.i <= Len(doc.network)
    /\ \E r \in {read_step(doc.network[cur.i], states)} :
           IF r.ok
           THEN /\ steps' = <<r.val>> \o steps
                /\ cur' = [cur EXCEPT !.i = cur.i + 1]
                /\ UNCHANGED <<pc, ret>>
           ELSE /\ ret' = [fn |-> call.fn, r |-> r]
                /\ pc' = "done"
                /\ UNCHANGED <<steps, cur>>
    /\ UNCHANGED <<disk, doc, states, paths, call>>

\* the for loop has reached step definition cur.i
ReadNetworkStep ==
    /\ pc = "network"
    /\ cur.i <= Len(doc.network)
    /\ \E r \in {read_step(doc.network[cur.i], states)} :
           IF r.ok
           THEN /\ steps' = Append(steps, r.val)
                /\ cur' = [cur EXCEPT !.i = cur.i + 1]
                /\ UNCHANGED <<pc, ret>>
           ELSE /\ ret' = [fn |-> call.fn, r |-> r]
                /\ pc' = "done"
                /\ UNCHANGED <<steps, cur>>
    /\ UNCHANGED <<disk, doc, states, paths, call>>

\* the loop is over: return steps
ReadNetworkReturn ==
    /\ pc = "network"
    /\ cur.i > Len(doc.network)
    /\ call.fn = "read_network"
    /\ ret' = [fn |-> "read_network", r |-> Ok(steps)]
    /\ pc' = "done"
    /\ UNCHANGED <<disk, doc, states, steps, paths, cur, call>>

---------------------------------------------------------------------------
(* Inputs of read_network once _load_states has returned.                  *)

Names == {"IS", "TS", "FS"}

\* the loaded states: IS and TS always, FS or not; any flag paired or not
StepStateMaps ==
    {[n \in D |-> State(n, n,
                        CASE n = "IS" -> Rat(-1, 1) [] n = "TS" -> Rat(3, 4) [] OTHER -> Rat(-2, 1),
                        CASE n = "IS" -> Rat(1, 2) [] n = "TS" -> Rat(3, 2) [] OTHER -> Rat(1, 4),
                        n \in P)] :
        D \in {{"IS", "TS"}, Names}, P \in SUBSET Names}

Term(name, stoichiometry) == [name |-> name, stoichiometry |-> stoichiometry]

StepTermSet ==
    [name : Names, stoichiometry : {Absent, Num(Rat(-3, 2))}] \cup {Term("IS", Str("two"))}

\* every list of at most one term, and some lists of two
StepTermLists ==
    {<<>>} \cup {<<t>> : t \in StepTermSet}
        \cup {<<t, u>> : t \in {Term("IS", Absent), Term("IS", Str("two"))},
                         u \in {Term("FS", Absent), Term("TS", Num(Rat(-3, 2)))}}

StepNormalizations == {Absent, Num(Rat(3, 1)), Num(Zero), Str("two")}

RichDirs == {Dir(ts, is, n) : ts \in StepTermLists, is \in StepTermLists,
                               n \in StepNormalizations}

BaseDir == Dir(<<Term("TS", Absent)>>, <<Term("IS", Absent)>>, Num(Rat(2, 1)))

SmallDirs == {EmptyDir, BaseDir}

StepDef(name, type, forward, backward, fs, is, normalization) ==
    [name |-> name, type |-> type, reaction |-> "IS* => FS*",
     forward |-> forward, backward |-> backward,
     fs |-> fs, is |-> is, normalization |-> normalization]

SurfStep(name, type, forward, backward) ==
    StepDef(name, type, forward, backward, <<>>, <<>>, Absent)

AdsStep(name, d) ==
    StepDef(name, Str("ads"), EmptyDir, EmptyDir, d.ts, d.is, d.normalization)

\* surf steps with one block varied and the other small, ads steps, and the
\* values of `type`
StepDefs ==
    {SurfStep(Str("s1"), Str("surf"), f, b) : f \in RichDirs, b \in SmallDirs}
        \cup {SurfStep(Str("s1"), Str("surf"), f, b) : f \in SmallDirs, b \in RichDirs}
        \cup {AdsStep(Str("s1"), d) : d \in RichDirs}
        \cup {SurfStep(n, t, BaseDir, b) :
                  n \in {Absent, Str("s1")}, t \in {Absent, Str("gas"), Null, Lst},
                  b \in SmallDirs}

InitStep ==
    /\ pc = "network"
    /\ disk = <<>>
    /\ \E d \in StepDefs : doc = [network |-> <<d>>]
    /\ states \in StepStateMaps
    /\ steps = <<>>
    /\ paths = <<>>
    /\ cur = [i |-> 1]
    /\ call = [fn |-> "read_network"]
    /\ ret = NoRet

NextStep == ReadNetworkStep \/ ReadNetworkReturn

SpecStep == InitStep /\ [][NextStep]_vars

---------------------------------------------------------------------------
(* Claims about the evaluation of one step (checked under SpecStep).       *)

Range(f) == {f[x] : x \in DOMAIN f}

\* the sum over the first k terms of stoichiometry * E, in list order
RECURSIVE RuleEnergySum(_, _, _)
RuleEnergySum(terms, sts, k) ==
    IF k = 0 THEN Zero
    ELSE FAdd(RuleEnergySum(terms, sts, k - 1),
              FMul(StoichOf(terms[k]), sts[terms[k].name].electronic_energy))

\* a normalization as a number: 1 when the block gives none
NormOf(raw) == IF raw.t = "absent" THEN One ELSE Fl(raw.v)

\* (sum over hi - sum over lo) / normalization
RuleElectronic(hi, lo, n, sts) ==
    FDiv(FSub(RuleEnergySum(hi, sts, Len(hi)), RuleEnergySum(lo, sts, Len(lo))), n)

\* sum_zpe(hi) - sum_zpe(lo)
RuleZpeCorrection(hi, lo, n, sts) ==
    FSub(sum_zpe(hi, sts, n).val[1], sum_zpe(lo, sts, n).val[1])

\* the declared type of a step definition, `surf` when it gives none
DeclaredType(step) == IF step.type.t = "absent" THEN "surf" ELSE Repr(step.type)

\* the step definition has been evaluated: appended or raised
Evaluated(i) == i < cur.i \/ (i = cur.i /\ pc = "done" /\ ~ret.r.ok)
Produced(i) == i <= Len(steps)

\* C2: for a surf step the forward values come from the forward block and
\* the reverse values from the backward block, each with its own
\* normalization: electronic = (sum_TS - sum_IS) / normalization, ZPE
\* correction = sum_zpe(ts) - sum_zpe(is), total = electronic + ZPE.
C2_SurfBarriers ==
    \A i \in 1..Len(steps) :
        steps[i].step_type = "surf" =>
            /\ steps[i].forward_barrier_electronic =
                   RuleElectronic(doc.network[i].forward.ts, doc.network[i].forward.is,
                                  NormOf(doc.network[i].forward.normalization), states)
            /\ steps[i].forward_zpe_correction =
                   RuleZpeCorrection(doc.network[i].forward.ts, doc.network[i].forward.is,
                                     NormOf(doc.network[i].forward.normalization), states)
            /\ steps[i].forward_total_barrier =
                   FAdd(steps[i].forward_barrier_electronic, steps[i].forward_zpe_correction)
            /\ steps[i].reverse_barrier_electronic =
                   RuleElectronic(doc.network[i].backward.ts, doc.network[i].backward.is,
                                  NormOf(doc.network[i].backward.normalization), states)
            /\ steps[i].reverse_zpe_correction =
                   RuleZpeCorrection(doc.network[i].backward.ts, doc.network[i].backward.is,
                                     NormOf(doc.network[i].backward.normalization), states)
            /\ steps[i].reverse_total_barrier =
                   FAdd(steps[i].reverse_barrier_electronic, steps[i].reverse_zpe_correction)

\* a surf step with normalization 3 forward and 2 backward whose barriers
\* differ and carry a ZPE correction
C2_Witness ==
    /\ Len(steps) = 1
    /\ steps[1].step_type = "surf"
    /\ doc.network[1].forward.normalization = Num(Rat(3, 1))
    /\ doc.network[1].backward.normalization = Num(Rat(2, 1))
    /\ Len(doc.network[1].forward.ts) = 2
    /\ steps[1].forward_zpe_correction # Zero
    /\ steps[1].reverse_zpe_correction # Zero
    /\ steps[1].forward_total_barrier # steps[1].reverse_total_barrier

\* C3: for a surf step each reaction heat is the forward value minus the
\* reverse value of the same quantity.
C3_SurfHeat ==
    \A i \in 1..Len(steps) :
        steps[i].step_type = "surf" =>
            /\ steps[i].reaction_heat_total =
                   FSub(steps[i].forward_total_barrier, steps[i].reverse_total_barrier)
            /\ steps[i].reaction_heat_electronic =
                   FSub(steps[i].forward_barrier_electronic, steps[i].reverse_barrier_electronic)
            /\ steps[i].reaction_heat_zpe_correction =
                   FSub(steps[i].forward_zpe_correction, steps[i].reverse_zpe_correction)

\* a surf step whose total heat is not the sum of its two other heats
C3_Witness ==
    /\ Len(steps) = 1
    /\ steps[1].step_type = "surf"
    /\ steps[1].reverse_total_barrier # Zero
    /\ steps[1].reaction_heat_total #
           FAdd(steps[1].reaction_heat_electronic, steps[1].reaction_heat_zpe_correction)

\* C4: an ads step computes one direction from its own fs, is and
\* normalization; the reverse values are 0, the reverse equation is "N/A"
\* and the reaction heat is the forward value.
C4_AdsHeat ==
    \A i \in 1..Len(steps) :
        steps[i].step_type = "ads" =>
            /\ steps[i].forward_barrier_electronic =
                   RuleElectronic(doc.network[i].fs, doc.network[i].is,
                                  NormOf(doc.network[i].normalization), states)
            /\ steps[i].forward_zpe_correction =
                   RuleZpeCorrection(doc.network[i].fs, doc.network[i].is,
                                     NormOf(doc.network[i].normalization), states)
            /\ steps[i].forward_total_barrier =
                   FAdd(steps[i].forward_barrier_electronic, steps[i].forward_zpe_correction)
            /\ steps[i].reverse_barrier_electronic = Zero
            /\ steps[i].reverse_zpe_correction = Zero
            /\ steps[i].reverse_total_barrier = Zero
            /\ steps[i].reverse_equation = <<"N/A">>
            /\ steps[i].reaction_heat_electronic = steps[i].forward_barrier_electronic
            /\ steps[i].reaction_heat_zpe_correction = steps[i].forward_zpe_correction
            /\ steps[i].reaction_heat_total = steps[i].forward_total_barrier

\* an ads step with normalization 3, both lists non-empty and a heat that
\* has an electronic and a ZPE part
C4_Witness ==
    /\ Len(steps) = 1
    /\ steps[1].step_type = "ads"
    /\ doc.network[1].normalization = Num(Rat(3, 1))
    /\ Len(doc.network[1].fs) > 0
    /\ Len(doc.network[1].is) > 0
    /\ steps[1].forward_barrier_electronic # Zero
    /\ steps[1].forward_zpe_correction # Zero
    /\ steps[1].reaction_heat_total # Zero

\* the normalizations a step definition's evaluation reads
NormalizationsRead(step) ==
    IF DeclaredType(step) = "ads" THEN {step.normalization}
    ELSE {step.forward.normalization, step.backward.normalization}

ValidType(step) == DeclaredType(step) \in {"surf", "ads"}

\* zero, or not the text of a number
BadNormalization(raw) == raw.t \in {"str", "null"} \/ (raw.t = "num" /\ Fl(raw.v) = Zero)

Failed(type) == pc = "done" /\ ~ret.r.ok /\ ret.r.exc.type = type

\* C6: a normalization that is zero or cannot be parsed makes the step
\* fail with a ValueError, for surf directions and ads steps alike and
\* whatever the term lists; an absent normalization is 1; no step result is
\* produced with normalization 0.
C6_Normalization ==
    \A i \in 1..Len(doc.network) :
        /\ ( /\ Evaluated(i)
             /\ ValidType(doc.network[i])
             /\ \E n \in NormalizationsRead(doc.network[i]) : BadNormalization(n) )
               => (Failed("ValueError") /\ ~Produced(i))
        /\ Produced(i) =>
               \A n \in NormalizationsRead(doc.network[i]) : NormOf(n) # Zero
        /\ ( /\ Produced(i)
             /\ steps[i].step_type = "surf"
             /\ doc.network[i].forward.normalization = Absent )
               => steps[i].forward_barrier_electronic =
                      FSub(RuleEnergySum(doc.network[i].forward.ts, states,
                                         Len(doc.network[i].forward.ts)),
                           RuleEnergySum(doc.network[i].forward.is, states,
                                         Len(doc.network[i].forward.is)))

\* a step whose lists are all empty or valid fails on a zero normalization
C6_Witness ==
    /\ pc = "done"
    /\ ret.r = ZeroNormalization
    /\ doc.network[1].forward.normalization = Num(Zero)
    /\ doc.network[1].forward.ts = <<>>
    /\ doc.network[1].forward.is = <<>>
    /\ steps = <<>>

\* the term lists a step definition's evaluation reads, in the order read
ListsRead(step) ==
    IF DeclaredType(step) = "ads" THEN <<step.fs, step.is>>
    ELSE <<step.forward.ts, step.forward.is, step.backward.ts, step.backward.is>>

\* the names the lists read give that are not loaded states
UnknownNames(step) ==
    UNION {{l[k].name : k \in 1..Len(l)} : l \in Range(ListsRead(step))} \ DOMAIN states


\* what the evaluation of a step definition reads, in the order read: the
\* terms of each list, then the normalization of the block
TermItems(l) == [k \in 1..Len(l) |-> [kind |-> "term", name |-> l[k].name,
                                       raw |-> l[k].stoichiometry]]
NormItem(raw) == <<[kind |-> "norm", name |-> "", raw |-> raw]>>
ItemsRead(step) ==
    IF DeclaredType(step) = "ads"
    THEN TermItems(step.fs) \o TermItems(step.is) \o NormItem(step.normalization)
    ELSE TermItems(step.forward.ts) \o TermItems(step.forward.is)
             \o NormItem(step.forward.normalization)
             \o TermItems(step.backward.ts) \o TermItems(step.backward.is)
             \o NormItem(step.backward.normalization)

UnknownItem(item) == item.kind = "term" /\ item.name \notin DOMAIN states
BadItem(item) ==
    IF item.kind = "term"
    THEN item.name \notin DOMAIN states \/ item.raw.t \in {"str", "null"}
    ELSE BadNormalization(item.raw)

\* the first item read that cannot be evaluated
FirstBad(items) ==
    CHOOSE k \in 1..Len(items) : BadItem(items[k]) /\ \A j \in 1..(k - 1) : ~BadItem(items[j])

UnknownStateMessage(name) == <<"Unknown state '", name, "' referenced in network step">>

\* C7 as stated: whenever a list the step reads names a state that is not
\* loaded, the evaluation fails with a ValueError whose message names that
\* state, and no step result is produced.
C7_EveryUnknownStateNamed ==
    \A i \in 1..Len(doc.network) :
        (Evaluated(i) /\ ValidType(doc.network[i])) =>
            \A n \in UnknownNames(doc.network[i]) :
                /\ Failed("ValueError")
                /\ n \in Range(ret.r.exc.msg)
                /\ ~Produced(i)

\* C7 (amended): whenever a list the step reads names a state that is not
\* loaded, the evaluation fails with a ValueError and no step result is
\* produced; the message names that state when it is the first item, in the
\* order read, that cannot be evaluated.
C7_UnknownStateFails ==
    \A i \in 1..Len(doc.network) :
        ( /\ Evaluated(i)
          /\ ValidType(doc.network[i])
          /\ UnknownNames(doc.network[i]) # {} )
            => /\ Failed("ValueError")
               /\ ~Produced(i)
               /\ UnknownItem(ItemsRead(doc.network[i])[FirstBad(ItemsRead(doc.network[i]))])
                      => ret.r.exc.msg = UnknownStateMessage(
                             ItemsRead(doc.network[i])[FirstBad(ItemsRead(doc.network[i]))].name)

\* the backward `is` list of a surf step names FS, which is not loaded; the
\* forward block and the backward `ts` list are valid
C7_Witness ==
    /\ pc = "done"
    /\ "FS" \notin DOMAIN states
    /\ DeclaredType(doc.network[1]) = "surf"
    /\ doc.network[1].forward = BaseDir
    /\ doc.network[1].backward.ts = <<Term("TS", Absent)>>
    /\ doc.network[1].backward.is = <<Term("FS", Absent)>>
    /\ ret.r.exc.msg = UnknownStateMessage("FS")
    /\ steps = <<>>

\* C9: the type of a step is its `type` field, `surf` when absent; any
\* other value than `surf` or `ads` fails with the invalid-type ValueError;
\* every returned step has step_type surf or ads.
C9_StepType ==
    \A i \in 1..Len(doc.network) :
        /\ (Evaluated(i) /\ ~ValidType(doc.network[i]))
               => /\ Failed("ValueError")
                  /\ ret.r.exc.msg[1] = "Invalid network step type '"
                  /\ ~Produced(i)
        /\ Produced(i)
               => /\ steps[i].step_type \in {"surf", "ads"}
                  /\ steps[i].step_type = DeclaredType(doc.network[i])

---------------------------------------------------------------------------
(* evaluate_paths: read_network, then the loop over `paths`.               *)

ReactionPath(name, total_reaction_energy) ==
    [name |-> name, total_reaction_energy |-> total_reaction_energy]

\* bool(value) of a YAML scalar
Truthy(raw) ==
    \/ raw.t = "str" /\ raw.s # ""
    \/ raw.t \in {"num", "bool"} /\ raw.v # Zero
    \/ raw.t = "list"

\* str(path) of a path entry: its keys and values as the YAML file gives them
RECURSIVE PathStepsRepr(_, _)
PathStepsRepr(path_steps, i) ==
    IF i > Len(path_steps) THEN <<>>
    ELSE <<"{'name': ", Repr(path_steps[i].name)>>
             \o (IF path_steps[i].factor.t = "absent" THEN <<>>
                 ELSE <<"'factor': ", Repr(path_steps[i].factor)>>)
             \o (IF path_steps[i].label.t = "absent" THEN <<>>
                 ELSE <<"'label': ", Repr(path_steps[i].label)>>)
             \o <<"}">> \o PathStepsRepr(path_steps, i + 1)

PathRepr(path) ==
    <<"{">> \o (IF path.name.t = "absent" THEN <<>> ELSE <<"'name': ", Repr(path.name)>>)
           \o <<"'steps': [">> \o PathStepsRepr(path.steps, 1) \o <<"]}">>

\* `if not path_name`, line 333
path_name_invalid(path) == ~Truthy(path.name)

InvalidPathEntry(path) ==
    Raise("ValueError", <<"Invalid path entry without a name: ">> \o PathRepr(path))

\* the lookup failing as steps_by_name[step_name] would: a KeyError
UnknownStep_KeyError(step_name, path_name) == Raise("KeyError", <<step_name>>)

UnknownStep(step_name, path_name) ==
    Raise("ValueError", <<"Unknown step '", step_name, "' referenced in path '", path_name, "'">>)

\* the message without the step and the path
InvalidFactor_unnamed(step_name, path_name, factor) ==
    Raise("ValueError", <<"Invalid factor: ", Repr(factor)>>)

InvalidFactor(step_name, path_name, factor) ==
    Raise("ValueError", <<"Invalid factor for step '", step_name, "' in path '", path_name,
                          "': ", Repr(factor)>>)

\* a dictionary in which the first step of a name is kept
steps_by_name_first(stps) ==
    [n \in {stps[k].name : k \in 1..Len(stps)} |->
        stps[CHOOSE k \in 1..Len(stps) :
                 /\ stps[k].name = n
                 /\ \A j \in 1..(k - 1) : stps[j].name # n]]

\* {step.name: step for step in steps}: a later step replaces an earlier
\* one of the same name
steps_by_name(stps) ==
    [n \in {stps[k].name : k \in 1..Len(stps)} |->
        stps[CHOOSE k \in 1..Len(stps) :
                 /\ stps[k].name = n
                 /\ \A j \in (k + 1)..Len(stps) : stps[j].name # n]]

\* the heat added without its factor
path_increment_unscaled(factor_value, step_heat) == step_heat

\* factor_value * step_heat
path_increment(factor_value, step_heat) == FMul(factor_value, step_heat)

\* the inner for loop of evaluate_paths from path step i on
RECURSIVE path_steps_loop(_, _, _, _, _)
\* the body of the loop for one path step: step_name, factor as read from it
path_step(path_steps, by_name, path_name, i, total, step_name, factor) ==
    IF step_name \notin DOMAIN by_name THEN UnknownStep(step_name, path_name)
    ELSE IF ~CanFloat(factor) THEN InvalidFactor(step_name, path_name, factor)
    ELSE path_steps_loop(path_steps, by_name, path_name, i + 1,
             FAdd(total, path_increment(ToFloat(factor),
                                        by_name[step_name].reaction_heat_total)))

path_steps_loop(path_steps, by_name, path_name, i, total) ==
    IF i > Len(path_steps) THEN Ok(ReactionPath(path_name, total))
    ELSE path_step(path_steps, by_name, path_name, i, total,
                   Repr(path_steps[i].name), Get(path_steps[i].factor, Num(One)))

\* one iteration of the for loop over `paths`, lines 331-358
evaluate_path(path, by_name) ==
    IF path_name_invalid(path) THEN InvalidPathEntry(path)
    ELSE path_steps_loop(path.steps, by_name, Repr(path.name), 1, Zero)

\* read_network has returned its steps to evaluate_paths
StepsByName ==
    /\ pc = "network"
    /\ cur.i > Len(doc.network)
    /\ call.fn = "evaluate_paths"
    /\ pc' = "paths"
    /\ UNCHANGED <<disk, doc, states, steps, paths, cur, call, ret>>

\* the for loop has reached path cur.p
EvaluatePath ==
    /\ pc = "paths"
    /\ cur.p <= Len(doc.paths)
    /\ \E r \in {evaluate_path(doc.paths[cur.p], steps_by_name(steps))} :
           IF r.ok
           THEN /\ paths' = Append(paths, r.val)
                /\ cur' = [cur EXCEPT !.p = cur.p + 1]
                /\ UNCHANGED <<pc, ret>>
           ELSE /\ ret' = [fn |-> "evaluate_paths", r |-> r]
                /\ pc' = "done"
                /\ UNCHANGED <<paths, cur>>
    /\ UNCHANGED <<disk, doc, states, steps, call>>

\* the loop is over: return paths
EvaluatePathsReturn ==
    /\ pc = "paths"
    /\ cur.p > Len(doc.paths)
    /\ ret' = [fn |-> "evaluate_paths", r |-> Ok(paths)]
    /\ pc' = "done"
    /\ UNCHANGED <<disk, doc, states, steps, paths, cur, call>>

---------------------------------------------------------------------------
(* Inputs of evaluate_paths once _load_states has returned.                *)

MaxSteps == 2
MaxPathSteps == 3

\* IS, TS and FS are loaded, none with paired modes averaged
PathStates ==
    [n \in Names |-> State(n, n,
                        CASE n = "IS" -> Rat(-1, 1) [] n = "TS" -> Rat(3, 4) [] OTHER -> Rat(-2, 1),
                        CASE n = "IS" -> Rat(1, 2) [] n = "TS" -> Rat(3, 2) [] OTHER -> Rat(1, 4),
                        FALSE)]

\* an ads step s1, a surf step s2, a surf step that is also named s1, and
\* a step of an invalid type
AdsS1 == AdsStep(Str("s1"), Dir(<<Term("FS", Absent)>>, <<Term("IS", Absent)>>, Absent))
SurfS2 ==
    SurfStep(Str("s2"), Absent, BaseDir,
             Dir(<<Term("TS", Absent)>>, <<Term("FS", Absent)>>, Absent))
SurfS1 == SurfStep(Str("s1"), Absent, BaseDir, EmptyDir)
GasS3 == SurfStep(Str("s3"), Str("gas"), BaseDir, EmptyDir)

PathStepDefs == {AdsS1, SurfS2, SurfS1, GasS3}

\* the networks the long paths are evaluated over
BaseNetworks == {<<SurfS1>>, <<AdsS1, SurfS2>>, <<AdsS1, SurfS1>>}

PathStepEntry(name, factor) == [name |-> name, factor |-> factor, label |-> Absent]

\* references to s1, s2 and the undeclared s9 with factor absent, 2 or
\* -1/2, and a factor that is not a number
PathStepEntries ==
    {PathStepEntry(n, f) : n \in {Str("s1"), Str("s2"), Str("s9")},
                           f \in {Absent, Num(Rat(2, 1)), Num(Rat(-1, 2))}}
        \cup {PathStepEntry(Str("s1"), Str("x"))}

PathDef(name, path_steps) == [name |-> name, steps |-> path_steps]

SmallPaths == {PathDef(Str("p2"), <<>>), PathDef(Absent, <<>>),
               PathDef(Str("p2"), <<PathStepEntry(Str("s2"), Absent)>>),
               PathDef(Str("p3"), <<PathStepEntry(Str("s1"), Num(Rat(2, 1)))>>)}

\* no path, one small path or two
SmallPathLists ==
    {<<>>} \cup {<<p>> : p \in SmallPaths} \cup {<<p, q>> : p \in SmallPaths, q \in SmallPaths}

\* one path of up to MaxPathSteps entries
RichPathLists ==
    {<<PathDef(Str("p1"), e)>> : e \in SeqsUpTo(PathStepEntries, MaxPathSteps)}

\* every network of up to MaxSteps steps with the small paths, and the
\* base networks with the long paths
PathDocs ==
    {[network |-> n, paths |-> p] : n \in SeqsUpTo(PathStepDefs, MaxSteps), p \in SmallPathLists}
        \cup {[network |-> n, paths |-> p] : n \in BaseNetworks, p \in RichPathLists}

InitPaths ==
    /\ pc = "network"
    /\ disk = <<>>
    /\ doc \in PathDocs
    /\ states = PathStates
    /\ steps = <<>>
    /\ paths = <<>>
    /\ cur = [i |-> 1, p |-> 1]
    /\ call = [fn |-> "evaluate_paths"]
    /\ ret = NoRet

NextPaths == ReadNetworkStep \/ StepsByName \/ EvaluatePath \/ EvaluatePathsReturn

SpecPaths == InitPaths /\ [][NextPaths]_vars

---------------------------------------------------------------------------
(* Claims about the path evaluator. *)

\* the factor of a path step entry, 1 when absent
FactorOf(entry) == IF entry.factor.t = "absent" THEN One ELSE Fl(entry.factor.v)

\* reaction_heat_total of the step a path step entry refers to: the last
\* step of that name read_network returned
HeatOf(entry) ==
    steps[CHOOSE k \in 1..Len(steps) :
              /\ steps[k].name = entry.name.s
              /\ \A j \in (k + 1)..Len(steps) : steps[j].name # entry.name.s].reaction_heat_total

\* the sum of factor * heat over the first k entries, added in list order
RECURSIVE RuleTotal(_, _)
RuleTotal(entries, k) ==
    IF k = 0 THEN Zero
    ELSE FAdd(RuleTotal(entries, k - 1), FMul(FactorOf(entries[k]), HeatOf(entries[k])))

\* the same sum without rounding
RECURSIVE ExactTotal(_, _)
ExactTotal(entries, k) ==
    IF k = 0 THEN Zero
    ELSE RAdd(ExactTotal(entries, k - 1), RMul(FactorOf(entries[k]), HeatOf(entries[k])))

Perms(n) == {f \in [1..n -> 1..n] : \A a, b \in 1..n : f[a] = f[b] => a = b}
Permuted(entries, f) == [k \in 1..Len(entries) |-> entries[f[k]]]

\* no addition or multiplication of the sum rounds, in any order of the entries
ExactInEveryOrder(entries) ==
    \A g \in Perms(Len(entries)) :
        \A k \in 1..Len(entries) :
            RuleTotal(Permuted(entries, g), k) = ExactTotal(Permuted(entries, g), k)

\* C5 as stated: the total of every reported path is the sum over its step
\* entries of factor * reaction_heat_total, it is the same for every
\* permutation of the entries, and a path with no steps totals 0.
C5_PermutationInvariant ==
    \A i \in 1..Len(paths) :
        /\ paths[i].total_reaction_energy
               = RuleTotal(doc.paths[i].steps, Len(doc.paths[i].steps))
        /\ \A f \in Perms(Len(doc.paths[i].steps)) :
               paths[i].total_reaction_energy
                   = RuleTotal(Permuted(doc.paths[i].steps, f), Len(doc.paths[i].steps))
        /\ doc.paths[i].steps = <<>> => paths[i].total_reaction_energy = Zero

\* C5 (amended): the total of every reported path is the sum of factor *
\* reaction_heat_total accumulated in floating point in the order of the
\* path's step entries; a path with no steps totals 0; the total is the
\* same for every permutation of at most two entries, and whenever the
\* accumulation is exact.
C5_PathTotal ==
    \A i \in 1..Len(paths) :
        /\ paths[i].total_reaction_energy
               = RuleTotal(doc.paths[i].steps, Len(doc.paths[i].steps))
        /\ ( \/ Len(doc.paths[i].steps) <= 2
             \/ ExactInEveryOrder(doc.paths[i].steps) )
               => \A f \in Perms(Len(doc.paths[i].steps)) :
                      paths[i].total_reaction_energy
                          = RuleTotal(Permuted(doc.paths[i].steps, f), Len(doc.paths[i].steps))
        /\ doc.paths[i].steps = <<>> => paths[i].total_reaction_energy = Zero

\* the path -s1/2 - s1/2 + 2 s1 over a step of heat 11/8 totals 11/8, and
\* another order of its entries gives another total
C5_Witness ==
    /\ pc = "done"
    /\ ret.r.ok
    /\ Len(paths) = 1
    /\ Len(doc.paths[1].steps) = 3
    /\ doc.paths[1].steps[1].factor = Num(Rat(-1, 2))
    /\ doc.paths[1].steps[3].factor = Num(Rat(2, 1))
    /\ paths[1].total_reaction_energy = Rat(11, 8)
    /\ \E f \in Perms(3) :
           RuleTotal(Permuted(doc.paths[1].steps, f), 3) # paths[1].total_reaction_energy

---------------------------------------------------------------------------
(* _resolve_state_file.                                                    *)

\* a path under the base directory: its stem and its suffix ("" if none)
File(stem, suffix) == <<stem, suffix>>

\* Path.with_suffix: the suffix of the path is replaced, or added if none
with_suffix(path, suffix) == File(path[1], suffix)

\* Path.exists
exists(dsk, path) == path \in DOMAIN dsk

StateFileNotFound(state_file) ==
    Raise("FileNotFoundError", <<"State file not found: ", state_file[1], state_file[2]>>)

\* .yml tried before .yaml
resolve_state_file_yml_first(dsk, state_file) ==
    IF exists(dsk, state_file) THEN Ok(state_file)
    ELSE IF exists(dsk, with_suffix(state_file, ".yml"))
    THEN Ok(with_suffix(state_file, ".yml"))
    ELSE IF exists(dsk, with_suffix(state_file, ".yaml"))
    THEN Ok(with_suffix(state_file, ".yaml"))
    ELSE StateFileNotFound(state_file)

resolve_state_file(dsk, state_file) ==
    IF exists(dsk, state_file) THEN Ok(state_file)
    ELSE IF exists(dsk, with_suffix(state_file, ".yaml"))
    THEN Ok(with_suffix(state_file, ".yaml"))
    ELSE IF exists(dsk, with_suffix(state_file, ".yml"))
    THEN Ok(with_suffix(state_file, ".yml"))
    ELSE StateFileNotFound(state_file)

ResolveStateFile ==
    /\ pc = "resolve"
    /\ ret' = [fn |-> "_resolve_state_file", r |-> resolve_state_file(disk, call.state_file)]
    /\ pc' = "done"
    /\ UNCHANGED <<disk, doc, states, steps, paths, cur, call>>

\* the files that may exist under the base directory
Files == {"IS", "TS"} \X {"", ".yaml", ".yml", ".dat"}

InitResolve ==
    /\ pc = "resolve"
    /\ \E E \in SUBSET Files : disk = [f \in E |-> "yaml"]
    /\ doc = <<>>
    /\ states = <<>>
    /\ steps = <<>>
    /\ paths = <<>>
    /\ cur = <<>>
    /\ \E f \in Files : call = [fn |-> "_resolve_state_file", state_file |-> f]
    /\ ret = NoRet

NextResolve == ResolveStateFile

SpecResolve == InitResolve /\ [][NextResolve]_vars

\* the candidates in the order stated: the literal name, the name with a
\* .yaml suffix, the name with a .yml suffix
Candidates(state_file) ==
    <<state_file, <<state_file[1], ".yaml">>, <<state_file[1], ".yml">>>>

\* C10: the reference resolves to the first of the literal name, the
\* .yaml name and the .yml name that exists, and fails with
\* FileNotFoundError when none exists.
C10_ResolveOrder ==
    ret.fn = "_resolve_state_file" =>
        /\ \A k \in 1..3 :
               ( /\ Candidates(call.state_file)[k] \in DOMAIN disk
                 /\ \A j \in 1..(k - 1) : Candidates(call.state_file)[j] \notin DOMAIN disk )
                   => ret.r.ok /\ ret.r.val = Candidates(call.state_file)[k]
        /\ (\A k \in 1..3 : Candidates(call.state_file)[k] \notin DOMAIN disk)
               => ~ret.r.ok /\ ret.r.exc.type = "FileNotFoundError"

\* IS.yaml and IS.yml both exist, IS does not: the reference IS resolves
\* to IS.yaml
C10_Witness ==
    /\ pc = "done"
    /\ call.state_file = <<"IS", "">>
    /\ <<"IS", "">> \notin DOMAIN disk
    /\ <<"IS", ".yaml">> \in DOMAIN disk
    /\ <<"IS", ".yml">> \in DOMAIN disk
    /\ ret.r = Ok(<<"IS", ".yaml">>)

---------------------------------------------------------------------------
(* _read_state_data: the content of a state file.                          *)

\* 1.239841984e-4 eV per cm^-1.  The literal is kept to five digits,
\* 1.2398e-4 = 6199/50000000, which rounds to the same float of Prec bits.
EV_PER_CM1 == Fl(<<6199, 50000000>>)

Half == <<1, 2>>

\* What yaml.safe_load returns for a state file.  kind: "map" (a mapping),
\* "empty" (None, an empty file), "list" or "scalar".  energy.t: "absent",
\* "map" (a mapping, with `electronic` a scalar or Absent) or "scalar"
\* (anything else).  vibrations.t: "absent", "map", "null", "list" or
\* "str"; frequencies.t: "absent", "list" (of scalars) or "scalar".
Energy(t, electronic) == [t |-> t, electronic |-> electronic]
Frequencies(t, items) == [t |-> t, items |-> items]
Vibrations(t, frequencies, paired) ==
    [t |-> t, frequencies |-> frequencies, paired_modes_averaged |-> paired]
NoFrequencies == Frequencies("absent", <<>>)
NoVibrations == Vibrations("absent", NoFrequencies, Absent)
StateDoc(kind, energy, vibrations) ==
    [kind |-> kind, energy |-> energy, vibrations |-> vibrations]
NotAMapping(kind) == StateDoc(kind, Energy("absent", Absent), NoVibrations)

MissingEnergy(state_path) ==
    Raise("ValueError", <<"State file '", state_path[1], state_path[2],
                          "' is missing a valid energy.electronic value">>)

InvalidFrequenciesFormat(state_path) ==
    Raise("ValueError", <<"State file '", state_path[1], state_path[2],
                          "' has invalid vibrations.frequencies_cm-1 format">>)

NonNumericFrequencies(state_path) ==
    Raise("ValueError", <<"State file '", state_path[1], state_path[2],
                          "' has non-numeric frequency values">>)

\* type(value).__name__ of a value that is not a mapping
TypeName(t) == IF t = "null" THEN "NoneType" ELSE t

\* value.get(...) on a value that is not a mapping
NoGet(t) == Raise("AttributeError", <<"'", TypeName(t), "' object has no attribute 'get'">>)

\* float(state_data["energy"]["electronic"]) raises KeyError, TypeError or
\* ValueError, lines 64-69
energy_invalid(state_data) ==
    \/ state_data.kind # "map"
    \/ state_data.energy.t # "map"
    \/ ~CanFloat(state_data.energy.electronic)

\* sum(frequencies_cm1): added from 0 on, left to right
RECURSIVE PySum(_, _)
PySum(frequencies_cm1, k) ==
    IF k = 0 THEN Zero ELSE FAdd(PySum(frequencies_cm1, k - 1), frequencies_cm1[k])

\* the ZPE without the factor 0.5
zpe_energy_unhalved(frequencies_cm1) ==
    FMul(PySum(frequencies_cm1, Len(frequencies_cm1)), EV_PER_CM1)

\* 0.5 * sum(frequencies_cm1) * EV_PER_CM1, line 86
zpe_energy(frequencies_cm1) ==
    FMul(FMul(Half, PySum(frequencies_cm1, Len(frequencies_cm1))), EV_PER_CM1)

\* lines 79-90: frequencies is a list
read_frequencies(state_path, state_data, frequencies) ==
    IF \E k \in 1..Len(frequencies) : ~CanFloat(frequencies[k])
    THEN NonNumericFrequencies(state_path)
    ELSE Ok(<<ToFloat(state_data.energy.electronic),
              zpe_energy([k \in 1..Len(frequencies) |-> ToFloat(frequencies[k])]),
              Truthy(Get(state_data.vibrations.paired_modes_averaged, Bool(FALSE)))>>)

\* the frequencies list is not checked to be a list
read_vibrations_unchecked(state_path, state_data) ==
    IF state_data.vibrations.t \notin {"absent", "map"} THEN NoGet(state_data.vibrations.t)
    ELSE read_frequencies(state_path, state_data, state_data.vibrations.frequencies.items)

\* lines 71-77: vibrations.get("frequencies_cm-1", [])
read_vibrations(state_path, state_data) ==
    IF state_data.vibrations.t \notin {"absent", "map"} THEN NoGet(state_data.vibrations.t)
    ELSE IF state_data.vibrations.frequencies.t \notin {"absent", "list"}
    THEN InvalidFrequenciesFormat(state_path)
    ELSE read_frequencies(state_path, state_data, state_data.vibrations.frequencies.items)

\* a file without a valid energy is read with electronic energy 0
read_state_data_energy_unchecked(state_path, state_data) ==
    IF energy_invalid(state_data)
    THEN Ok(<<Zero, Zero, FALSE>>)
    ELSE read_vibrations(state_path, state_data)

\* _read_state_data of the file at state_path, whose content is state_data
read_state_data(state_path, state_data) ==
    IF energy_invalid(state_data) THEN MissingEnergy(state_path)
    ELSE read_vibrations(state_path, state_data)

---------------------------------------------------------------------------
(* _load_states: the entries of `stable_states` and `transition_states`.   *)

SectionNames == <<"stable_states", "transition_states">>

\* network_data.get(section, []): t is "absent", "null" or "list"
Section(t, items) == [t |-> t, items |-> items]
NoSection == Section("absent", <<>>)
NullSection == Section("null", <<>>)

\* the `file` of an entry: a string (a path below the base directory), a
\* number, or absent
FileRef(stem, suffix) == [t |-> "str", p |-> File(stem, suffix)]
NoFile == [t |-> "absent", p |-> File("", "")]
NumFile == [t |-> "num", p |-> File("5", "")]

\* an entry of a section: a mapping with `name` and `file`, or a string
StateEntry(name, file) == [kind |-> "map", name |-> name, file |-> file]
StrEntry == [kind |-> "str", name |-> Absent, file |-> NoFile]

\* str(state) of an entry that is a mapping
EntryRepr(state) ==
    <<"{">> \o (IF state.name.t = "absent" THEN <<>> ELSE <<"'name': ", Repr(state.name)>>)
           \o (IF state.file.t = "absent" THEN <<>>
               ELSE <<"'file': ", state.file.p[1], state.file.p[2]>>)
           \o <<"}">>

InvalidStateEntry(section, state) ==
    Raise("ValueError", <<"Invalid state entry in '", section, "': ">> \o EntryRepr(state))

\* base_dir / state_file with a state_file that is not a string
NotAPath == Raise("TypeError", <<"unsupported operand type(s) for /: 'PosixPath' and 'int'">>)

\* section is None: the for loop cannot iterate over it
NotIterable == Raise("TypeError", <<"'NoneType' object is not iterable">>)

\* `not name or not state_file`, line 100
entry_invalid(state) ==
    \/ ~Truthy(state.name)
    \/ state.file.t = "absent"
    \/ state.file.t = "str" /\ state.file.p = File("", "")

\* lines 105-111: states[name] = State(...)
load_state_store(state, resolved_file, data) ==
    IF ~data.ok THEN data
    ELSE IF Unhashable(state.name) THEN UnhashableType
    ELSE Ok(State(Repr(state.name), resolved_file, data.val[1], data.val[2], data.val[3]))

\* line 104: _read_state_data(resolved_file)
load_state_read(state, dsk, resolved) ==
    IF ~resolved.ok THEN resolved
    ELSE load_state_store(state, resolved.val, read_state_data(resolved.val, dsk[resolved.val]))

\* the file is resolved before the entry is checked
load_state_unchecked(state, section, dsk) ==
    IF state.kind # "map" THEN NoGet(state.kind)
    ELSE IF state.file.t = "num" THEN NotAPath
    ELSE load_state_read(state, dsk, resolve_state_file(dsk, state.file.p))

\* one iteration of the inner for loop of _load_states, lines 98-111
load_state(state, section, dsk) ==
    IF state.kind # "map" THEN NoGet(state.kind)
    ELSE IF entry_invalid(state) THEN InvalidStateEntry(section, state)
    ELSE IF state.file.t = "num" THEN NotAPath
    ELSE load_state_read(state, dsk, resolve_state_file(dsk, state.file.p))

SectionOf(d, k) == IF k = 1 THEN d.stable_states ELSE d.transition_states

\* the outer for loop takes the next section: network_data.get(section, [])
LoadSection ==
    /\ pc = "load"
    /\ cur.s <= 2
    /\ cur.k = 0
    /\ IF SectionOf(doc, cur.s).t = "null"
       THEN /\ ret' = [fn |-> call.fn, r |-> NotIterable]
            /\ pc' = "done"
            /\ UNCHANGED cur
       ELSE /\ cur' = [cur EXCEPT !.k = 1]
            /\ UNCHANGED <<pc, ret>>
    /\ UNCHANGED <<disk, doc, states, steps, paths, call>>

\* the inner for loop has reached entry cur.k of section cur.s
LoadState ==
    /\ pc = "load"
    /\ cur.s <= 2
    /\ cur.k >= 1
    /\ cur.k <= Len(SectionOf(doc, cur.s).items)
    /\ \E r \in {load_state(SectionOf(doc, cur.s).items[cur.k], SectionNames[cur.s], disk)} :
           IF r.ok
           THEN /\ states' = [n \in DOMAIN states \cup {r.val.name} |->
                                 IF n = r.val.name THEN r.val ELSE states[n]]
                /\ cur' = [cur EXCEPT !.k = cur.k + 1]
                /\ UNCHANGED <<pc, ret>>
           ELSE /\ ret' = [fn |-> call.fn, r |-> r]
                /\ pc' = "done"
                /\ UNCHANGED <<states, cur>>
    /\ UNCHANGED <<disk, doc, steps, paths, call>>

\* the inner for loop is over
LoadSectionDone ==
    /\ pc = "load"
    /\ cur.s <= 2
    /\ cur.k > Len(SectionOf(doc, cur.s).items)
    /\ cur' = [cur EXCEPT !.s = cur.s + 1, !.k = 0]
    /\ UNCHANGED <<pc, disk, doc, states, steps, paths, call, ret>>

\* both sections are done: return states
LoadStatesReturn ==
    /\ pc = "load"
    /\ cur.s > 2
    /\ call.fn = "_load_states"
    /\ ret' = [fn |-> "_load_states", r |-> Ok(states)]
    /\ pc' = "done"
    /\ UNCHANGED <<disk, doc, states, steps, paths, cur, call>>

---------------------------------------------------------------------------
(* Inputs of _load_states.                                                 *)

\* longest frequency list of a state file
MaxFreqs == 2
\* most entries of `stable_states`
MaxEntries == 2

\* `electronic` of the energy mapping
Electronics ==
    {Absent, Null, Str("abc"), Lst, Bool(TRUE), Num(Rat(-1, 1)), Num(Rat(3, 4))}

Energies == {Energy("absent", Absent), Energy("scalar", Absent)}
                \cup {Energy("map", e) : e \in Electronics}

\* frequencies in cm^-1, a string and a null
FrequencyItems == {Num(Int2R(8192)), Num(Int2R(4096)), Str("a"), Null}

FrequencyLists ==
    {NoFrequencies, Frequencies("scalar", <<>>)}
        \cup {Frequencies("list", f) : f \in SeqsUpTo(FrequencyItems, MaxFreqs)}

VibrationsSet ==
    {NoVibrations} \cup {Vibrations(t, NoFrequencies, Absent) : t \in {"null", "list", "str"}}
        \cup {Vibrations("map", f, p) :
                  f \in FrequencyLists, p \in {Absent, Null, Bool(TRUE), Bool(FALSE), Str("no")}}

StateDocs ==
    {NotAMapping(k) : k \in {"empty", "list", "scalar"}}
        \cup {StateDoc("map", e, v) : e \in Energies, v \in VibrationsSet}

\* a state file that loads: E = 3/4, frequencies 8192 and 4096
GoodDoc ==
    StateDoc("map", Energy("map", Num(Rat(3, 4))),
             Vibrations("map", Frequencies("list", <<Num(Int2R(8192)), Num(Int2R(4096))>>),
                        Absent))

\* entries with and without name and file, with a file that does not
\* exist, and entries that are malformed
StateEntries ==
    {StateEntry(n, f) : n \in {Str("IS"), Str("TS"), Absent, Str("")},
                        f \in {FileRef("IS", ""), FileRef("FS", ""), NoFile, FileRef("", "")}}
        \cup {StrEntry, StateEntry(Str("IS"), NumFile), StateEntry(Lst, FileRef("IS", ""))}

Sections == {NoSection, NullSection, Section("list", <<>>),
             Section("list", <<StateEntry(Str("TS"), FileRef("TS", ""))>>)}

NetworkDoc(stable_states, transition_states, network, path_list) ==
    [stable_states |-> stable_states, transition_states |-> transition_states,
     network |-> network, paths |-> path_list]

\* every content of IS.yaml with the entries IS and TS, and every list of
\* entries with files that load
LoadInputs ==
    {<<[f \in {File("IS", ".yaml"), File("TS", ".yml")} |->
            IF f = File("IS", ".yaml") THEN d ELSE GoodDoc],
       NetworkDoc(Section("list", <<StateEntry(Str("IS"), FileRef("IS", ""))>>),
                  Section("list", <<StateEntry(Str("TS"), FileRef("TS", ""))>>), <<>>, <<>>)>> :
         d \in StateDocs}
        \cup {<<[f \in {File("IS", ".yaml"), File("TS", ".yml")} |-> GoodDoc],
                NetworkDoc(st, ts, <<>>, <<>>)>> :
                  st \in {NoSection, NullSection}
                             \cup {Section("list", e) : e \in SeqsUpTo(StateEntries, MaxEntries)},
                  ts \in Sections}

InitLoad ==
    /\ pc = "load"
    /\ \E x \in LoadInputs : disk = x[1] /\ doc = x[2]
    /\ states = <<>>
    /\ steps = <<>>
    /\ paths = <<>>
    /\ cur = [s |-> 1, k |-> 0, i |-> 1, p |-> 1]
    /\ call = [fn |-> "_load_states"]
    /\ ret = NoRet

NextLoad == LoadSection \/ LoadState \/ LoadSectionDone \/ LoadStatesReturn

SpecLoad == InitLoad /\ [][NextLoad]_vars

---------------------------------------------------------------------------
(* Claims about the loading of state files.                                *)

\* the entries of the two sections, as <<section, index>>
EntryIds == {<<sec, k>> : sec \in 1..2, k \in 1..MaxEntries}
HasEntry(id) == id[2] <= Len(SectionOf(doc, id[1]).items)
EntryOf(id) == SectionOf(doc, id[1]).items[id[2]]

\* the entry has been loaded, or is the one whose loading raised
EntryLoaded(id) ==
    \/ pc = "load" /\ (id[1] < cur.s \/ (id[1] = cur.s /\ cur.k > id[2]))
    \/ pc # "load" /\ (pc # "done" \/ ret.r.ok \/ cur.s > 2)
    \/ pc = "done" /\ ~ret.r.ok /\ (id[1] < cur.s \/ (id[1] = cur.s /\ cur.k > id[2]))
EntryRaised(id) == pc = "done" /\ ~ret.r.ok /\ cur.s = id[1] /\ cur.k = id[2]

\* the entry is a mapping with a name and a file that resolves
ReachesFile(entry) ==
    /\ entry.kind = "map"
    /\ entry.name.t = "str" /\ entry.name.s # ""
    /\ entry.file.t = "str" /\ entry.file.p # <<"", "">>
    /\ \E k \in 1..3 : Candidates(entry.file.p)[k] \in DOMAIN disk

\* the file the entry resolves to, and its content
FileOfEntry(entry) ==
    Candidates(entry.file.p)[CHOOSE k \in 1..3 :
        /\ Candidates(entry.file.p)[k] \in DOMAIN disk
        /\ \A j \in 1..(k - 1) : Candidates(entry.file.p)[j] \notin DOMAIN disk]
ContentOf(entry) == disk[FileOfEntry(entry)]

\* energy.electronic is there and float() accepts it
EnergyNumeric(d) ==
    d.kind = "map" /\ d.energy.t = "map" /\ d.energy.electronic.t \in {"num", "bool"}

\* the message cites the file
CitesFile(msg, f) == Len(msg) >= 3 /\ msg[2] = f[1] /\ msg[3] = f[2]

\* C11: a state file whose energy.electronic is absent, not a number or
\* structurally wrong makes the loading fail with a ValueError that cites
\* the file; every State created has the numeric electronic energy of its
\* file.
C11_MissingEnergy ==
    /\ \A id \in EntryIds :
           ( /\ HasEntry(id)
             /\ EntryLoaded(id) \/ EntryRaised(id)
             /\ ReachesFile(EntryOf(id))
             /\ ~EnergyNumeric(ContentOf(EntryOf(id))) )
               => /\ EntryRaised(id)
                  /\ ret.r.exc.type = "ValueError"
                  /\ CitesFile(ret.r.exc.msg, FileOfEntry(EntryOf(id)))
                  /\ ret.r.exc.msg[4] = "' is missing a valid energy.electronic value"
                  /\ \A n \in DOMAIN states : states[n].file # FileOfEntry(EntryOf(id))
    /\ \A n \in DOMAIN states :
           /\ EnergyNumeric(disk[states[n].file])
           /\ states[n].electronic_energy = Fl(disk[states[n].file].energy.electronic.v)

\* IS.yaml holds energy: {electronic: abc}; loading IS raised
C11_Witness ==
    /\ pc = "done"
    /\ disk[File("IS", ".yaml")].energy = Energy("map", Str("abc"))
    /\ ret.r = MissingEnergy(File("IS", ".yaml"))
    /\ states = <<>>

\* the vibrations of the file are absent or a mapping
VibrationsMapping(d) == d.vibrations.t \in {"absent", "map"}

FrequenciesOf(d) == d.vibrations.frequencies

\* C13: frequencies_cm-1 is optional and defaults to the empty list; when
\* it is present but not a list, or holds an entry that is not a number,
\* loading fails with a ValueError that cites the file and no State is
\* created.
C13_Frequencies ==
    \A id \in EntryIds :
        ( /\ HasEntry(id)
          /\ EntryLoaded(id) \/ EntryRaised(id)
          /\ ReachesFile(EntryOf(id))
          /\ EnergyNumeric(ContentOf(EntryOf(id)))
          /\ VibrationsMapping(ContentOf(EntryOf(id))) )
            => /\ FrequenciesOf(ContentOf(EntryOf(id))).t = "absent"
                      => /\ EntryLoaded(id)
                         /\ EntryOf(id).name.s \in DOMAIN states
                         /\ states[EntryOf(id).name.s].zpe_energy = Zero
               /\ ( \/ FrequenciesOf(ContentOf(EntryOf(id))).t = "scalar"
                    \/ \E k \in 1..Len(FrequenciesOf(ContentOf(EntryOf(id))).items) :
                           FrequenciesOf(ContentOf(EntryOf(id))).items[k].t \notin {"num", "bool"} )
                      => /\ EntryRaised(id)
                         /\ ret.r.exc.type = "ValueError"
                         /\ CitesFile(ret.r.exc.msg, FileOfEntry(EntryOf(id)))
                         /\ \A n \in DOMAIN states :
                                states[n].file # FileOfEntry(EntryOf(id))

\* the frequencies of IS.yaml are not a list; loading IS raised
C13_Witness ==
    /\ pc = "done"
    /\ EnergyNumeric(disk[File("IS", ".yaml")])
    /\ disk[File("IS", ".yaml")].vibrations.t = "map"
    /\ disk[File("IS", ".yaml")].vibrations.frequencies.t = "scalar"
    /\ ret.r = InvalidFrequenciesFormat(File("IS", ".yaml"))
    /\ states = <<>>

---------------------------------------------------------------------------
(* read_network, evaluate_paths and build_ped from the network file on.    *)

\* _load_states has returned to read_network, lines 256-258
ReadNetworkBegin ==
    /\ pc = "load"
    /\ cur.s > 2
    /\ call.fn # "_load_states"
    /\ pc' = "network"
    /\ UNCHANGED <<disk, doc, states, steps, paths, cur, call, ret>>

\* read_network has returned its steps to build_ped, lines 377-378
BuildPedStepsByName ==
    /\ pc = "network"
    /\ cur.i > Len(doc.network)
    /\ call.fn = "build_ped"
    /\ pc' = "ped"
    /\ UNCHANGED <<disk, doc, states, steps, paths, cur, call, ret>>

PathNotFound(path_name) ==
    Raise("ValueError", <<"Path '", path_name, "' not found in network file">>)

\* str(path_step.get("label", f"state_{index}"))
Label(raw, index) ==
    IF raw.t = "absent" THEN [text |-> "state_", index |-> index]
    ELSE [text |-> Repr(raw), index |-> 0]

\* the for loop of lines 390-404 from path step i on
RECURSIVE condense_loop(_, _, _, _, _)
condense_step(path_steps, by_name, path_name, i, condensed_steps, step_name, factor) ==
    IF step_name \notin DOMAIN by_name THEN UnknownStep(step_name, path_name)
    ELSE IF ~CanFloat(factor) THEN InvalidFactor(step_name, path_name, factor)
    ELSE condense_loop(path_steps, by_name, path_name, i + 1,
             Append(condensed_steps,
                    [step |-> by_name[step_name], factor_value |-> ToFloat(factor),
                     label |-> Label(path_steps[i].label, i)]))

condense_loop(path_steps, by_name, path_name, i, condensed_steps) ==
    IF i > Len(path_steps) THEN Ok(condensed_steps)
    ELSE condense_step(path_steps, by_name, path_name, i, condensed_steps,
                       Repr(path_steps[i].name), Get(path_steps[i].factor, Num(One)))

\* the paths of the network file whose name is path_name, lines 381-384
Selected(path_list, path_name) ==
    {k \in 1..Len(path_list) : path_list[k].name = Str(path_name)}

\* the last path of that name is selected
select_path_last(path_list, path_name, by_name) ==
    IF Selected(path_list, path_name) = {} THEN PathNotFound(path_name)
    ELSE condense_loop(
             path_list[CHOOSE k \in Selected(path_list, path_name) :
                           \A j \in Selected(path_list, path_name) : j <= k].steps,
             by_name, path_name, 1, <<>>)

\* lines 380-404: the first path of that name is selected and condensed
select_path(path_list, path_name, by_name) ==
    IF Selected(path_list, path_name) = {} THEN PathNotFound(path_name)
    ELSE condense_loop(
             path_list[CHOOSE k \in Selected(path_list, path_name) :
                           \A j \in Selected(path_list, path_name) : k <= j].steps,
             by_name, path_name, 1, <<>>)

\* every final energy is taken as current_energy + magnitude * heat
final_energy_forward(current_energy, factor_value, step) ==
    FAdd(current_energy, FMul(RAbs(factor_value), step.reaction_heat_total))

\* lines 431-439: magnitude, direction and final_energy of one step
final_energy(current_energy, factor_value, step) ==
    IF ~RLess(factor_value, Zero)
    THEN FAdd(current_energy, FMul(RAbs(factor_value), step.reaction_heat_total))
    ELSE FSub(current_energy, FMul(RAbs(factor_value), step.reaction_heat_total))

\* the for loop of lines 431-487 from condensed step i on: the plateau
\* drawn after each step is appended to state_energies and state_labels
RECURSIVE plateaus_loop(_, _, _, _, _)
plateaus_loop(condensed_steps, i, current_energy, state_energies, state_labels) ==
    IF i > Len(condensed_steps)
    THEN [condensed_steps |-> condensed_steps, state_energies |-> state_energies,
          state_labels |-> state_labels]
    ELSE plateaus_loop(condensed_steps, i + 1,
             final_energy(current_energy, condensed_steps[i].factor_value,
                          condensed_steps[i].step),
             Append(state_energies,
                    final_energy(current_energy, condensed_steps[i].factor_value,
                                 condensed_steps[i].step)),
             Append(state_labels, condensed_steps[i].label))

\* lines 414-429: the first plateau is state_0 at the zero reference energy
plateaus(condensed) ==
    IF ~condensed.ok THEN condensed
    ELSE Ok(plateaus_loop(condensed.val, 1, Zero, <<Zero>>,
                          <<[text |-> "state_", index |-> 0]>>))

\* build_ped selects its path, condenses the steps of it and draws the
\* plateaus
BuildPedPath ==
    /\ pc = "ped"
    /\ ret' = [fn |-> "build_ped",
               r |-> plateaus(select_path(doc.paths, call.path_name,
                                          steps_by_name(steps)))]
    /\ pc' = "done"
    /\ UNCHANGED <<disk, doc, states, steps, paths, cur, call>>

---------------------------------------------------------------------------
(* Inputs of read_network, evaluate_paths and build_ped.                   *)

\* a state file with electronic energy e and one frequency freq
FileDoc(e, freq) ==
    StateDoc("map", Energy("map", Num(e)),
             Vibrations("map", Frequencies("list", <<Num(Int2R(freq))>>), Absent))

\* IS: E = -1, ZPE = 1/2; TS: E = 3/4, ZPE = 3/2; FS: E = -2, ZPE = 1/4
ISDoc == FileDoc(Rat(-1, 1), 8192)
TSDoc == FileDoc(Rat(3, 4), 24576)
FSDoc == FileDoc(Rat(-2, 1), 4096)

\* IS without a vibrations section
ISDocNoVibrations == StateDoc("map", Energy("map", Num(Rat(-1, 1))), NoVibrations)

\* the files IS.yaml, TS.yml, FS and the empty file XS.yaml
RunDisk(is_doc) ==
    [f \in {File("IS", ".yaml"), File("TS", ".yml"), File("FS", ""), File("XS", ".yaml")} |->
        CASE f = File("IS", ".yaml") -> is_doc
          [] f = File("TS", ".yml") -> TSDoc
          [] f = File("FS", "") -> FSDoc
          [] OTHER -> NotAMapping("empty")]

ISEntry == StateEntry(Str("IS"), FileRef("IS", ""))
TSEntry == StateEntry(Str("TS"), FileRef("TS", ""))
FSEntry == StateEntry(Str("FS"), FileRef("FS", ""))

\* entries for a state XS that no step refers to: its file is empty, its
\* file does not exist, it has no name, it has no file
BadEntries == {StateEntry(Str("XS"), FileRef("XS", "")), StateEntry(Str("XS"), FileRef("ZS", "")),
               StateEntry(Absent, FileRef("XS", "")), StateEntry(Absent, FileRef("ZS", "")),
               StateEntry(Str("XS"), NoFile)}

\* <<disk, stable_states, transition_states>>: all states load; IS has no
\* vibrations; FS is not declared; a bad entry follows TS
LoadConfigs ==
    {<<RunDisk(ISDoc), <<ISEntry, FSEntry>>, <<TSEntry>>>>,
     <<RunDisk(ISDocNoVibrations), <<ISEntry, FSEntry>>, <<TSEntry>>>>,
     <<RunDisk(ISDoc), <<ISEntry>>, <<TSEntry>>>>}
        \cup {<<RunDisk(ISDoc), <<ISEntry, FSEntry>>, <<TSEntry, b>>>> : b \in BadEntries}

GoodConfig == <<RunDisk(ISDoc), <<ISEntry, FSEntry>>, <<TSEntry>>>>

\* the name IS declared twice: within stable_states (the second time with
\* the file of FS), and again in transition_states (with the file of TS)
DupConfigs ==
    {<<RunDisk(ISDoc), <<ISEntry, StateEntry(Str("IS"), FileRef("FS", ""))>>,
       <<TSEntry, FSEntry>>>>,
     <<RunDisk(ISDoc), <<ISEntry, FSEntry>>,
       <<TSEntry, StateEntry(Str("IS"), FileRef("TS", ""))>>>>}

\* step definitions without a name
UnnamedAds == AdsStep(Absent, Dir(<<Term("FS", Absent)>>, <<Term("IS", Absent)>>, Absent))
UnnamedSurf == SurfStep(Absent, Absent, BaseDir, EmptyDir)

\* networks in which a step name occurs twice
DupNetworks ==
    {<<AdsS1, SurfS1>>, <<SurfS1, AdsS1>>, <<UnnamedAds, UnnamedSurf>>,
     <<UnnamedSurf, UnnamedAds>>}

\* a path over s1 and a path over the placeholder name
DupPathLists ==
    {<<>>, <<PathDef(Str("p1"), <<PathStepEntry(Str("s1"), Absent)>>)>>,
     <<PathDef(Str("p1"), <<PathStepEntry(Str("unnamed_step"), Absent)>>)>>}

Reacting(step, reaction) == [step EXCEPT !.reaction = reaction]

\* a surf step whose backward normalization is zero
ZeroS4 == SurfStep(Str("s4"), Str("surf"), BaseDir,
                   Dir(<<Term("TS", Absent)>>, <<Term("FS", Absent)>>, Num(Zero)))

\* a surf step with the stoichiometry -3/2
FracS5 == SurfStep(Str("s5"), Absent,
                   Dir(<<Term("TS", Num(Rat(-3, 2)))>>, <<Term("IS", Absent)>>, Absent), EmptyDir)

\* a surf step whose second term has a stoichiometry that is not a number
TwoS6 == SurfStep(Str("s6"), Absent,
                  Dir(<<Term("FS", Absent), Term("IS", Str("two"))>>, <<>>, Absent), EmptyDir)

RunStepDefs ==
    {Reacting(AdsS1, "IS* => FS*"), Reacting(SurfS2, "IS* => TS* => FS*"),
     Reacting(SurfS1, "IS* => TS*"), Reacting(GasS3, "gas"), Reacting(ZeroS4, "zero"),
     Reacting(FracS5, "frac"), Reacting(TwoS6, "two")}

\* paths that refer to s1, s2 and the undeclared s9
RunPaths ==
    {PathDef(Str("p1"), <<>>), PathDef(Absent, <<>>),
     PathDef(Str("p1"), <<PathStepEntry(Str("s1"), Absent)>>),
     PathDef(Str("p1"), <<PathStepEntry(Str("s9"), Absent)>>),
     PathDef(Str("p1"), <<PathStepEntry(Str("s1"), Str("x")), PathStepEntry(Str("s9"), Absent)>>),
     PathDef(Str("p2"), <<PathStepEntry(Str("s2"), Absent),
                          PathStepEntry(Str("s9"), Num(Rat(2, 1)))>>),
     PathDef(Str("p3"), <<PathStepEntry(Str("s1"), Num(Rat(-3, 2)))>>)}

RunPathLists ==
    {<<>>} \cup {<<p>> : p \in RunPaths} \cup {<<p, q>> : p \in RunPaths, q \in RunPaths}

\* paths named p4 of several entries with positive and negative factors
PedPathLists ==
    {<<PathDef(Str("p4"), es)>> :
         es \in {<<PathStepEntry(Str("s1"), Absent), PathStepEntry(Str("s2"), Num(Rat(-3, 2))),
                   PathStepEntry(Str("s1"), Num(Rat(2, 1)))>>,
                 <<PathStepEntry(Str("s1"), Num(Rat(-3, 2))), PathStepEntry(Str("s1"), Absent)>>,
                 <<PathStepEntry(Str("s1"), Num(Rat(2, 1))),
                   PathStepEntry(Str("s1"), Num(Rat(-1, 2)))>>}}

Call(fn, path_name) == [fn |-> fn, path_name |-> path_name]

PathCalls == {Call("evaluate_paths", ""), Call("build_ped", "p1"), Call("build_ped", "p9")}

RunInput(config, network, path_list, c) ==
    <<config[1],
      NetworkDoc(Section("list", config[2]), Section("list", config[3]), network, path_list),
      c>>

\* every state file and every list of entries of LoadInputs with no
\* network; every short network over every configuration of the states;
\* every list of paths over the base networks; every configuration and
\* every short network with a path
RunInputs ==
    {<<x[1], x[2], Call("read_network", "")>> : x \in LoadInputs}
        \cup {RunInput(l, n, <<>>, Call("read_network", "")) :
                  l \in LoadConfigs, n \in SeqsUpTo(RunStepDefs, MaxSteps)}
        \cup {RunInput(GoodConfig, n, p, c) :
                  n \in BaseNetworks, p \in RunPathLists, c \in PathCalls}
        \cup {RunInput(l, <<AdsS1>>, <<PathDef(Str("p1"), <<PathStepEntry(Str("s1"), Absent)>>)>>, c) :
                  l \in LoadConfigs, c \in PathCalls}
        \cup {RunInput(GoodConfig, n, <<PathDef(Str("p1"), <<PathStepEntry(Str("s1"), Absent)>>)>>, c) :
                  n \in SeqsUpTo(RunStepDefs, MaxSteps), c \in PathCalls}
        \cup {RunInput(l, n, p, c) :
                  l \in DupConfigs \cup {GoodConfig}, n \in DupNetworks, p \in DupPathLists,
                  c \in PathCalls \cup {Call("read_network", "")}}
        \cup {RunInput(GoodConfig, n, p, c) :
                  n \in BaseNetworks, p \in PedPathLists,
                  c \in {Call("evaluate_paths", ""), Call("build_ped", "p4")}}

InitRun ==
    /\ pc = "load"
    /\ \E x \in RunInputs : disk = x[1] /\ doc = x[2] /\ call = x[3]
    /\ states = <<>>
    /\ steps = <<>>
    /\ paths = <<>>
    /\ cur = [s |-> 1, k |-> 0, i |-> 1, p |-> 1]
    /\ ret = NoRet

NextRun ==
    \/ LoadSection \/ LoadState \/ LoadSectionDone \/ ReadNetworkBegin
    \/ ReadNetworkStep \/ ReadNetworkReturn
    \/ StepsByName \/ EvaluatePath \/ EvaluatePathsReturn
    \/ BuildPedStepsByName \/ BuildPedPath

SpecRun == InitRun /\ [][NextRun]_vars

---------------------------------------------------------------------------
(* Claims about the whole evaluation.                                      *)

\* the frequencies of a state file, [] when it gives none
FrequencyItemsOf(d) ==
    IF d.vibrations.t = "map" /\ d.vibrations.frequencies.t = "list"
    THEN d.vibrations.frequencies.items ELSE <<>>

\* the first k frequencies added up in list order
RECURSIVE RuleFrequencySum(_, _)
RuleFrequencySum(items, k) ==
    IF k = 0 THEN Zero ELSE FAdd(RuleFrequencySum(items, k - 1), Fl(items[k].v))

\* 0.5 x (sum of the frequencies x eV per cm^-1)
RuleZpe(d) ==
    FMul(Half, FMul(RuleFrequencySum(FrequencyItemsOf(d), Len(FrequencyItemsOf(d))),
                    EV_PER_CM1))

\* the file has no vibrations section, or one without a frequencies list
NoFrequencyList(d) ==
    \/ d.vibrations.t = "absent"
    \/ d.vibrations.t = "map" /\ d.vibrations.frequencies.t = "absent"

\* vibrations.paired_modes_averaged is set to a true value
PairedFlagSet(d) ==
    /\ d.vibrations.t = "map"
    /\ \/ d.vibrations.paired_modes_averaged = Bool(TRUE)
       \/ d.vibrations.paired_modes_averaged.t = "str"

\* the terms of a list whose state has a ZPE
WithZpe(terms) == SelectSeq(terms, LAMBDA t : states[t.name].zpe_energy # Zero)

\* the ZPE correction of a block from the states that have a ZPE only
RuleZpeOfOthers(hi, lo, n) ==
    FSub(RuleZpeSum(WithZpe(hi), states, n, Len(WithZpe(hi))),
         RuleZpeSum(WithZpe(lo), states, n, Len(WithZpe(lo))))

\* every loaded state has the ZPE of its file, and the ZPE corrections of
\* every step are those of the states that have a ZPE
ZpeOfFilesAndSteps ==
    /\ \A n \in DOMAIN states : states[n].zpe_energy = RuleZpe(disk[states[n].file])
    /\ \A i \in 1..Len(steps) :
           IF steps[i].step_type = "ads"
           THEN steps[i].forward_zpe_correction =
                    RuleZpeOfOthers(doc.network[i].fs, doc.network[i].is,
                                    NormOf(doc.network[i].normalization))
           ELSE /\ steps[i].forward_zpe_correction =
                       RuleZpeOfOthers(doc.network[i].forward.ts, doc.network[i].forward.is,
                                       NormOf(doc.network[i].forward.normalization))
                /\ steps[i].reverse_zpe_correction =
                       RuleZpeOfOthers(doc.network[i].backward.ts, doc.network[i].backward.is,
                                       NormOf(doc.network[i].backward.normalization))

\* the entry's file has a numeric energy and no frequencies list
LoadsWithoutFrequencies(id) ==
    /\ HasEntry(id)
    /\ EntryLoaded(id) \/ EntryRaised(id)
    /\ ReachesFile(EntryOf(id))
    /\ EnergyNumeric(ContentOf(EntryOf(id)))
    /\ NoFrequencyList(ContentOf(EntryOf(id)))

\* C12 as stated: the ZPE of a loaded state is 0.5 x sum of frequencies x
\* 1.239841984e-4; a file with no vibrations section or no frequencies
\* list loads with ZPE 0 and paired_modes_averaged false, and a barrier
\* carries only the ZPE of the other states.
C12_ZpeAndUnpaired ==
    /\ ZpeOfFilesAndSteps
    /\ \A id \in EntryIds :
           LoadsWithoutFrequencies(id)
               => /\ EntryLoaded(id)
                  /\ EntryOf(id).name.s \in DOMAIN states
                  /\ \A n \in DOMAIN states :
                         states[n].file = FileOfEntry(EntryOf(id))
                             => /\ states[n].zpe_energy = Zero
                                /\ states[n].paired_modes_averaged = FALSE

\* C12 (amended): as stated, except that paired_modes_averaged is false
\* only when the file does not set it: a vibrations section without a
\* frequencies list may still set the flag.
C12_Zpe ==
    /\ ZpeOfFilesAndSteps
    /\ \A id \in EntryIds :
           LoadsWithoutFrequencies(id)
               => /\ EntryLoaded(id)
                  /\ EntryOf(id).name.s \in DOMAIN states
                  /\ \A n \in DOMAIN states :
                         states[n].file = FileOfEntry(EntryOf(id))
                             => /\ states[n].zpe_energy = Zero
                                /\ states[n].paired_modes_averaged
                                       = PairedFlagSet(ContentOf(EntryOf(id)))

\* IS.yaml has no vibrations section: IS has ZPE 0, and the forward ZPE
\* correction of the step TS - IS with normalization 2 is ZPE(TS)/2 = 3/4
C12_Witness ==
    /\ disk[File("IS", ".yaml")] = ISDocNoVibrations
    /\ Len(steps) >= 1
    /\ doc.network[1].forward = BaseDir
    /\ steps[1].step_type = "surf"
    /\ states["IS"].zpe_energy = Zero
    /\ ~states["IS"].paired_modes_averaged
    /\ states["TS"].zpe_energy = Rat(3, 2)
    /\ steps[1].forward_zpe_correction = Rat(3, 4)


\* the states are loaded and every step of the network has been read
PathStage ==
    /\ pc \notin {"load", "network"}
    /\ cur.s > 2
    /\ cur.i > Len(doc.network)

\* the path step entry refers to a step read_network did not return
UnknownRef(entry) == Repr(entry.name) \notin {steps[k].name : k \in 1..Len(steps)}

\* the path step entry cannot be evaluated
BadPathEntry(entry) == UnknownRef(entry) \/ entry.factor.t \notin {"absent", "num", "bool"}

\* the path cannot be evaluated
Nameless(path) == path.name.t = "absent"
BadPath(path) == Nameless(path) \/ \E k \in 1..Len(path.steps) : BadPathEntry(path.steps[k])

\* the first entry of a path that cannot be evaluated
FirstBadEntry(path) ==
    path.steps[CHOOSE k \in 1..Len(path.steps) :
                   /\ BadPathEntry(path.steps[k])
                   /\ \A j \in 1..(k - 1) : ~BadPathEntry(path.steps[j])]

\* the first path of the network file that cannot be evaluated
FirstBadPath ==
    doc.paths[CHOOSE q \in 1..Len(doc.paths) :
                  /\ BadPath(doc.paths[q])
                  /\ \A j \in 1..(q - 1) : ~BadPath(doc.paths[j])]

\* the path build_ped selects: the first one named call.path_name
SelectedPaths == {q \in 1..Len(doc.paths) : doc.paths[q].name = Str(call.path_name)}
SelectedPath == doc.paths[CHOOSE q \in SelectedPaths : \A j \in SelectedPaths : q <= j]

\* the paths the call evaluates
EvaluatedPaths ==
    IF call.fn = "evaluate_paths" THEN {doc.paths[q] : q \in 1..Len(doc.paths)}
    ELSE IF call.fn = "build_ped" /\ SelectedPaths # {} THEN {SelectedPath}
    ELSE {}

\* the first of them that cannot be evaluated
FirstBadEvaluated == IF call.fn = "evaluate_paths" THEN FirstBadPath ELSE SelectedPath

UnknownStepMessage(step_name, path_name) ==
    <<"Unknown step '", step_name, "' referenced in path '", path_name, "'">>

\* C14 as stated: an entry of an evaluated path that refers to a step the
\* network did not produce makes the call fail with a ValueError naming
\* that step and the path.
C14_EveryUnknownStepNamed ==
    (pc = "done" /\ PathStage) =>
        \A path \in EvaluatedPaths :
            \A k \in 1..Len(path.steps) :
                UnknownRef(path.steps[k])
                    => /\ ~ret.r.ok
                       /\ ret.r.exc.type = "ValueError"
                       /\ ret.r.exc.msg
                              = UnknownStepMessage(Repr(path.steps[k].name), Repr(path.name))

\* C14 (amended): such an entry makes the call fail with a ValueError; the
\* message names the step and the path when the entry is the first that
\* cannot be evaluated, in the first path that cannot be evaluated.
C14_UnknownStepFails ==
    (pc = "done" /\ PathStage) =>
        \A path \in EvaluatedPaths :
            \A k \in 1..Len(path.steps) :
                UnknownRef(path.steps[k])
                    => /\ ~ret.r.ok
                       /\ ret.r.exc.type = "ValueError"
                       /\ ( /\ path = FirstBadEvaluated
                            /\ ~Nameless(path)
                            /\ path.steps[k] = FirstBadEntry(path) )
                              => ret.r.exc.msg
                                     = UnknownStepMessage(Repr(path.steps[k].name),
                                                          Repr(path.name))

\* build_ped of p1, whose only entry refers to the undeclared s9
C14_Witness ==
    /\ pc = "done"
    /\ PathStage
    /\ call = Call("build_ped", "p1")
    /\ Len(steps) = 2
    /\ SelectedPaths # {}
    /\ SelectedPath = PathDef(Str("p1"), <<PathStepEntry(Str("s9"), Absent)>>)
    /\ ~ret.r.ok
    /\ ret.r.exc.type = "ValueError"
    /\ ret.r.exc.msg = UnknownStepMessage("s9", "p1")


\* the declared name of a step definition, the placeholder when it gives none
DeclaredName(step) == IF step.name.t = "absent" THEN "unnamed_step" ELSE Repr(step.name)

\* the declared state entries, as <<section, index>>
DeclaredEntries ==
    {sk \in (1..2) \X (1..MaxEntries) :
        /\ SectionOf(doc, sk[1]).t = "list"
        /\ sk[2] <= Len(SectionOf(doc, sk[1]).items)}

\* a state entry that does not load
BadStateEntry(sk) ==
    ~load_state(SectionOf(doc, sk[1]).items[sk[2]], SectionNames[sk[1]], disk).ok

\* a step definition that cannot be evaluated over the loaded states
BadStep(i) == ~read_step(doc.network[i], states).ok

\* some section is null, or some entry, step or evaluated path is bad
SomethingBad ==
    \/ \E s \in 1..2 : SectionOf(doc, s).t = "null"
    \/ \E sk \in DeclaredEntries : BadStateEntry(sk)
    \/ \E i \in 1..Len(doc.network) : BadStep(i)
    \/ \E path \in EvaluatedPaths : BadPath(path)
    \/ call.fn = "build_ped" /\ SelectedPaths = {}

\* C15: the call either returns one result for every declared step
\* (read_network) or path (evaluate_paths), or raises and returns nothing;
\* one bad state entry, step or path makes it raise, referenced or not.
C15_FailFast ==
    pc = "done" =>
        /\ (ret.r.ok /\ call.fn = "read_network")
               => /\ Len(ret.r.val) = Len(doc.network)
                  /\ \A i \in 1..Len(doc.network) :
                         ret.r.val[i].name = DeclaredName(doc.network[i])
        /\ (ret.r.ok /\ call.fn = "evaluate_paths")
               => /\ Len(ret.r.val) = Len(doc.paths)
                  /\ \A q \in 1..Len(doc.paths) :
                         ret.r.val[q].name = Repr(doc.paths[q].name)
        /\ ~ret.r.ok => ret.r.val = <<>>
        /\ ret.r.ok => ~SomethingBad

\* evaluate_paths raises over the bad step s3 that no path refers to
C15_Witness ==
    /\ pc = "done"
    /\ call.fn = "evaluate_paths"
    /\ ~ret.r.ok
    /\ Len(doc.network) = 2
    /\ steps = <<read_step(doc.network[1], states).val>>
    /\ doc.network[2] = Reacting(GasS3, "gas")
    /\ doc.paths = <<PathDef(Str("p1"), <<PathStepEntry(Str("s1"), Absent)>>)>>
    /\ \A sk \in DeclaredEntries : ~BadStateEntry(sk)


\* the message holds the identifier as one of its parts
Contains(msg, id) == \E k \in 1..Len(msg) : msg[k] = id

\* the call raised while loading entry cur.k of section cur.s
LoadFailure == pc = "done" /\ ~ret.r.ok /\ cur.s <= 2 /\ cur.k >= 1

\* the call raised while reading step definition cur.i
StepFailure == pc = "done" /\ ~ret.r.ok /\ cur.s > 2 /\ cur.i <= Len(doc.network)

\* the states a step definition refers to
TermNames(step) ==
    UNION {{l[k].name : k \in 1..Len(l)} :
               l \in {step.is, step.fs, step.forward.ts, step.forward.is,
                      step.backward.ts, step.backward.is}}

\* C16 as stated: a ValueError or FileNotFoundError raised while a state
\* entry with a file is loaded cites the file; a ValueError raised while a
\* step definition is read names a state of the step when it is about a
\* term, and the step otherwise.
C16_EveryErrorCarriesIdentifier ==
    /\ ( /\ LoadFailure
         /\ ret.r.exc.type \in {"ValueError", "FileNotFoundError"}
         /\ SectionOf(doc, cur.s).items[cur.k].file.t = "str" )
           => Contains(ret.r.exc.msg, SectionOf(doc, cur.s).items[cur.k].file.p[1])
    /\ (StepFailure /\ ret.r.exc.type = "ValueError")
           => IF ret.r.exc.msg[1] \in {"Unknown state '", "Invalid stoichiometry for state '"}
              THEN ret.r.exc.msg[2] \in TermNames(doc.network[cur.i])
              ELSE Contains(ret.r.exc.msg, Repr(doc.network[cur.i].name))


\* C17 as stated: a call that fails raises a FileNotFoundError or a
\* ValueError, whatever the entries of the network file and the contents
\* of the state files are.
C17_ClosedTaxonomy ==
    (pc = "done" /\ ~ret.r.ok) => ret.r.exc.type \in {"FileNotFoundError", "ValueError"}


\* the result at position i is the one computed from step definition i
FromDefinition(result, i) ==
    /\ result.name = StepName(doc.network[i])
    /\ result.step_type \in {"surf", "ads"}
    /\ result.step_type = StepType(doc.network[i])
    /\ result.reaction = doc.network[i].reaction
    /\ result = read_step(doc.network[i], states).val

\* C18: read_network returns one ElementaryStep per step definition, in
\* declaration order: the i-th result has the name, type and reaction of
\* the i-th definition and its energies; the list built so far is always
\* the results of the definitions read so far.
C18_DeclarationOrder ==
    /\ (pc = "network" /\ cur.i <= Len(doc.network) + 1)
           => /\ Len(steps) = cur.i - 1
              /\ \A i \in 1..Len(steps) : FromDefinition(steps[i], i)
    /\ (pc = "done" /\ ret.r.ok /\ call.fn = "read_network")
           => /\ Len(ret.r.val) = Len(doc.network)
              /\ \A i \in 1..Len(doc.network) : FromDefinition(ret.r.val[i], i)

\* read_network has returned the ads step s1 and then the surf step s2
C18_Witness ==
    /\ pc = "done"
    /\ ret.r.ok
    /\ call.fn = "read_network"
    /\ doc.network = <<Reacting(AdsS1, "IS* => FS*"), Reacting(SurfS2, "IS* => TS* => FS*")>>
    /\ Len(ret.r.val) = 2
    /\ ret.r.val[1].name = "s1" /\ ret.r.val[1].step_type = "ads"
    /\ ret.r.val[1].reaction = "IS* => FS*"
    /\ ret.r.val[2].name = "s2" /\ ret.r.val[2].step_type = "surf"
    /\ ret.r.val[2].reaction = "IS* => TS* => FS*"


\* the state entry has no name or no file
LacksNameOrFile(state) ==
    /\ state.kind = "map"
    /\ \/ state.name.t = "absent" \/ state.name = Str("")
       \/ state.file.t = "absent" \/ state.file = FileRef("", "")

\* the message shows the state entry: the section, and the name and the
\* file the entry has
ShowsStateEntry(msg, section, state) ==
    /\ msg[1] = "Invalid state entry in '"
    /\ msg[2] = section
    /\ state.name.t # "absent" => Contains(msg, Repr(state.name))
    /\ state.file.t # "absent" => Contains(msg, state.file.p[1])

\* the message shows the path entry: the names of its steps
ShowsPathEntry(msg, path) ==
    /\ msg[1] = "Invalid path entry without a name: "
    /\ \A k \in 1..Len(path.steps) : Contains(msg, Repr(path.steps[k].name))

C19_PathWitness ==
    /\ pc = "done"
    /\ PathStage
    /\ call.fn = "evaluate_paths"
    /\ cur.p <= Len(doc.paths)
    /\ Nameless(doc.paths[cur.p])
    /\ ret.r.exc.type = "ValueError"


\* a term of a loaded state whose stoichiometry is not a number
UnparsableItem(item) ==
    item.kind = "term" /\ item.name \in DOMAIN states /\ item.raw.t \in {"str", "null"}

\* a path step entry whose factor is not a number
UnparsableFactor(entry) == entry.factor.t \in {"str", "null", "list"}

InvalidStoichMessage(name, raw) ==
    <<"Invalid stoichiometry for state '", name, "': ", Repr(raw)>>

InvalidFactorMessage(step_name, path_name, raw) ==
    <<"Invalid factor for step '", step_name, "' in path '", path_name, "': ", Repr(raw)>>

\* step definition i has been read, or the call raised while reading it
StepEvaluated(i) == cur.s > 2 /\ Evaluated(i)

\* an absent stoichiometry counts as 1 and a fractional or negative one as
\* given, in the forward electronic barrier of every surf step; an absent
\* factor counts as 1 and a fractional or negative one as given, in the
\* total of every path
DefaultsToOne ==
    /\ \A i \in 1..Len(steps) :
           steps[i].step_type = "surf" =>
               steps[i].forward_barrier_electronic
                   = RuleElectronic(doc.network[i].forward.ts, doc.network[i].forward.is,
                                    NormOf(doc.network[i].forward.normalization), states)
    /\ \A q \in 1..Len(paths) :
           paths[q].total_reaction_energy
               = RuleTotal(doc.paths[q].steps, Len(doc.paths[q].steps))

\* C20 as stated: stoichiometry and factor default to 1 and may be
\* fractional or negative; every stoichiometry that is not a number makes
\* the call fail with a ValueError naming the state, and every factor that
\* is not a number with a ValueError naming the step and the path.
C20_EveryUnparsableNamed ==
    /\ DefaultsToOne
    /\ \A i \in 1..Len(doc.network) :
           (StepEvaluated(i) /\ ValidType(doc.network[i])) =>
               \A k \in 1..Len(ItemsRead(doc.network[i])) :
                   UnparsableItem(ItemsRead(doc.network[i])[k])
                       => /\ Failed("ValueError")
                          /\ ret.r.exc.msg
                                 = InvalidStoichMessage(ItemsRead(doc.network[i])[k].name,
                                                        ItemsRead(doc.network[i])[k].raw)
    /\ (pc = "done" /\ PathStage) =>
           \A path \in EvaluatedPaths :
               \A k \in 1..Len(path.steps) :
                   UnparsableFactor(path.steps[k])
                       => /\ Failed("ValueError")
                          /\ ret.r.exc.msg
                                 = InvalidFactorMessage(Repr(path.steps[k].name),
                                                        Repr(path.name), path.steps[k].factor)

\* C20 (amended): stoichiometry and factor default to 1 and may be
\* fractional or negative; a stoichiometry or a factor that is not a
\* number makes the call fail with a ValueError; the message names the
\* state, or the step and the path, when that term or entry is the first
\* item, in the order read, that cannot be evaluated.
C20_UnparsableFails ==
    /\ DefaultsToOne
    /\ \A i \in 1..Len(doc.network) :
           (StepEvaluated(i) /\ ValidType(doc.network[i])) =>
               \A k \in 1..Len(ItemsRead(doc.network[i])) :
                   UnparsableItem(ItemsRead(doc.network[i])[k])
                       => /\ Failed("ValueError")
                          /\ ~Produced(i)
                          /\ k = FirstBad(ItemsRead(doc.network[i]))
                                 => ret.r.exc.msg
                                        = InvalidStoichMessage(
                                              ItemsRead(doc.network[i])[k].name,
                                              ItemsRead(doc.network[i])[k].raw)
    /\ (pc = "done" /\ PathStage) =>
           \A path \in EvaluatedPaths :
               \A k \in 1..Len(path.steps) :
                   UnparsableFactor(path.steps[k])
                       => /\ Failed("ValueError")
                          /\ ( /\ path = FirstBadEvaluated
                               /\ ~Nameless(path)
                               /\ path.steps[k] = FirstBadEntry(path) )
                                 => ret.r.exc.msg
                                        = InvalidFactorMessage(Repr(path.steps[k].name),
                                                               Repr(path.name),
                                                               path.steps[k].factor)

\* the step s5 is read with the stoichiometry -3/2 for TS and 1 for IS, and
\* s6 then fails on the stoichiometry of IS, which follows the loaded FS
C20_Witness ==
    /\ pc = "done"
    /\ doc.network = <<Reacting(FracS5, "frac"), Reacting(TwoS6, "two")>>
    /\ "FS" \in DOMAIN states
    /\ Len(steps) = 1
    /\ steps[1].forward_barrier_electronic
           = FSub(FMul(Rat(-3, 2), states["TS"].electronic_energy),
                  states["IS"].electronic_energy)
    /\ steps[1].forward_barrier_electronic # Zero
    /\ ret.r.exc.type = "ValueError"
    /\ ret.r.exc.msg = InvalidStoichMessage("IS", Str("two"))


\* the last declared entry of a state name: stable_states before
\* transition_states, each in list order
EntriesNamed(n) == {sk \in DeclaredEntries : EntryOf(sk).name = Str(n)}
LastEntryNamed(n) ==
    EntryOf(CHOOSE sk \in EntriesNamed(n) :
                \A o \in EntriesNamed(n) : o[1] < sk[1] \/ (o[1] = sk[1] /\ o[2] <= sk[2]))

\* the states by name as the last declared entries give them
LastStates ==
    [n \in DOMAIN states |->
        State(n, FileOfEntry(LastEntryNamed(n)),
              Fl(ContentOf(LastEntryNamed(n)).energy.electronic.v),
              RuleZpe(ContentOf(LastEntryNamed(n))),
              PairedFlagSet(ContentOf(LastEntryNamed(n))))]

\* the last declared step of a name
LastStepNamed(n) ==
    steps[CHOOSE k \in 1..Len(doc.network) :
              /\ DeclaredName(doc.network[k]) = n
              /\ \A j \in (k + 1)..Len(doc.network) : DeclaredName(doc.network[j]) # n]

\* the total of a path over the last declared steps
RECURSIVE LastStepTotal(_, _)
LastStepTotal(entries, k) ==
    IF k = 0 THEN Zero
    ELSE FAdd(LastStepTotal(entries, k - 1),
              FMul(FactorOf(entries[k]), LastStepNamed(entries[k].name.s).reaction_heat_total))

\* C21: duplicate names are accepted; a state name denotes the last
\* declared entry of that name in every step, a step name (the placeholder
\* of unnamed steps included) denotes the last declared step of that name
\* in every path, and read_network returns every step.
C21_LastDeclaredWins ==
    /\ (cur.s > 2 /\ pc # "load") =>
           /\ states = LastStates
           /\ \A i \in 1..Len(steps) :
                  /\ steps[i].name = DeclaredName(doc.network[i])
                  /\ steps[i].forward_barrier_electronic =
                         IF steps[i].step_type = "ads"
                         THEN RuleElectronic(doc.network[i].fs, doc.network[i].is,
                                             NormOf(doc.network[i].normalization), LastStates)
                         ELSE RuleElectronic(doc.network[i].forward.ts,
                                             doc.network[i].forward.is,
                                             NormOf(doc.network[i].forward.normalization),
                                             LastStates)
    /\ \A q \in 1..Len(paths) :
           paths[q].total_reaction_energy
               = LastStepTotal(doc.paths[q].steps, Len(doc.paths[q].steps))
    /\ (pc = "done" /\ ret.r.ok /\ call.fn = "read_network")
           => Len(ret.r.val) = Len(doc.network)

\* IS is declared in both sections and s1 twice: the path over s1 has the
\* heat of the second s1, computed with the IS of transition_states
C21_Witness ==
    /\ pc = "done"
    /\ ret.r.ok
    /\ call.fn = "evaluate_paths"
    /\ Cardinality(EntriesNamed("IS")) = 2
    /\ states["IS"].file = File("TS", ".yml")
    /\ Len(steps) = 2
    /\ steps[1].name = "s1" /\ steps[2].name = "s1"
    /\ steps[1].reaction_heat_total # steps[2].reaction_heat_total
    /\ Len(paths) = 1
    /\ paths[1].total_reaction_energy = steps[2].reaction_heat_total


---------------------------------------------------------------------------
(* average_mode_pairs of vasp_freq.py: sequential pair averaging of the     *)
(* real and the imaginary modes.                                           *)

MaxModes == 4
MaxImag == 3

\* the note: None, or the text that records the dropped mode
NoNote == [t |-> "none", dropped |-> Zero]
DroppedNote(dropped) == [t |-> "str", dropped |-> dropped]

CannotPairReal ==
    Raise("ValueError", <<"Cannot pair-average: odd number of real modes and ",
                          "imaginary mode count != 1.">>)
CannotPairImag ==
    Raise("ValueError", <<"Cannot pair-average: odd number of imaginary modes ",
                          "that cannot be paired sequentially.">>)

\* freqs[i + 1] past the end of the list
IndexOutOfRange == Raise("IndexError", <<"list index out of range">>)

\* the two modes added and not halved
pair_mean_unhalved(a, b) == FAdd(a, b)

\* (freqs[i] + freqs[i + 1]) / 2.0
pair_mean(a, b) == FDiv(FAdd(a, b), Rat(2, 1))

\* the list comprehension over range(0, len(freqs), 2)
averaged(freqs) ==
    IF Len(freqs) % 2 = 1 THEN IndexOutOfRange
    ELSE Ok([k \in 1..(Len(freqs) \div 2) |-> pair_mean(freqs[2 * k - 1], freqs[2 * k])])

\* the first mode dropped instead of the last
drop_first(real_freqs) == SubSeq(real_freqs, 2, Len(real_freqs))

\* real_freqs[:-1]
drop_last(real_freqs) == SubSeq(real_freqs, 1, Len(real_freqs) - 1)

\* lines 574-593: the averaging proper
average_pairs(real_freqs, imag_freqs, note, averaged_real) ==
    IF ~averaged_real.ok THEN averaged_real
    ELSE IF Len(imag_freqs) % 2 = 1 /\ Len(imag_freqs) # 1 THEN CannotPairImag
    ELSE IF Len(imag_freqs) = 1 THEN Ok(<<averaged_real.val, imag_freqs, note>>)
    ELSE Ok(<<averaged_real.val, averaged(imag_freqs).val, note>>)

average_mode_pairs(real_freqs, imag_freqs) ==
    IF Len(real_freqs) % 2 = 1
    THEN IF Len(imag_freqs) = 1 /\ Len(real_freqs) > 0
         THEN average_pairs(drop_last(real_freqs), imag_freqs,
                            DroppedNote(real_freqs[Len(real_freqs)]),
                            averaged(drop_last(real_freqs)))
         ELSE CannotPairReal
    ELSE average_pairs(real_freqs, imag_freqs, NoNote, averaged(real_freqs))

AverageModePairs ==
    /\ pc = "pair"
    /\ ret' = [fn |-> "average_mode_pairs",
               r |-> average_mode_pairs(call.real_freqs, call.imag_freqs)]
    /\ pc' = "done"
    /\ UNCHANGED <<disk, doc, states, steps, paths, cur, call>>

\* real modes and imaginary modes (negative) in cm-1
RealModes == {Rat(1, 1), Rat(2, 1), Rat(15, 1)}
ImagModes == {Rat(-2, 1), Rat(-15, 1)}

InitPair ==
    /\ pc = "pair"
    /\ disk = <<>>
    /\ doc = <<>>
    /\ states = <<>>
    /\ steps = <<>>
    /\ paths = <<>>
    /\ cur = <<>>
    /\ \E r \in SeqsUpTo(RealModes, MaxModes), i \in SeqsUpTo(ImagModes, MaxImag) :
           call = [fn |-> "average_mode_pairs", real_freqs |-> r, imag_freqs |-> i]
    /\ ret = NoRet

NextPair == AverageModePairs

SpecPair == InitPair /\ [][NextPair]_vars

---------------------------------------------------------------------------
(* Claims about average_mode_pairs (checked under SpecPair).               *)

\* the mean of two modes
RuleMean(a, b) == Fl(RDiv(RAdd(a, b), Rat(2, 1)))

\* the list is the sequence of the means of the sequential pairs of freqs
PairedFrom(list, freqs) ==
    /\ 2 * Len(list) = Len(freqs)
    /\ \A k \in 1..Len(list) : list[k] = RuleMean(freqs[2 * k - 1], freqs[2 * k])

PairReturned == pc = "done" /\ ret.fn = "average_mode_pairs"

\* C22: an even number of real modes gives the means of the sequential
\* pairs, in order; an even number of imaginary modes is paired the same
\* way, a single imaginary mode is returned unchanged; the note is None
\* when nothing is dropped.
C22_SequentialPairs ==
    ( /\ PairReturned
      /\ Len(call.real_freqs) % 2 = 0
      /\ Len(call.imag_freqs) % 2 = 0 \/ Len(call.imag_freqs) = 1 )
        => /\ ret.r.ok
           /\ PairedFrom(ret.r.val[1], call.real_freqs)
           /\ IF Len(call.imag_freqs) = 1
              THEN ret.r.val[2] = call.imag_freqs
              ELSE PairedFrom(ret.r.val[2], call.imag_freqs)
           /\ ret.r.val[3] = NoNote

\* four real modes and two imaginary ones have been averaged in pairs, the
\* first real pair with a mean that is rounded
C22_Witness ==
    /\ PairReturned
    /\ call.real_freqs = <<Rat(15, 1), Rat(2, 1), Rat(1, 1), Rat(15, 1)>>
    /\ call.imag_freqs = <<Rat(-2, 1), Rat(-15, 1)>>
    /\ ret.r.ok
    /\ ret.r.val[1] = <<Rat(8, 1), Rat(8, 1)>>
    /\ Len(ret.r.val[2]) = 1
    /\ ret.r.val[3] = NoNote

\* C23: with an odd number of real modes and exactly one imaginary mode
\* the last real mode is dropped, the others are paired, the imaginary
\* mode is kept and the note records the dropped mode; with any other
\* number of imaginary modes the call raises ValueError; an odd number
\* other than 1 of imaginary modes raises ValueError; every mode of a
\* returned result is paired, kept as the single imaginary mode, or the
\* dropped one.
C23_OddModes ==
    PairReturned =>
        /\ (Len(call.real_freqs) % 2 = 1 /\ Len(call.imag_freqs) = 1)
               => /\ ret.r.ok
                  /\ PairedFrom(ret.r.val[1],
                                SubSeq(call.real_freqs, 1, Len(call.real_freqs) - 1))
                  /\ ret.r.val[2] = call.imag_freqs
                  /\ ret.r.val[3].t = "str"
                  /\ ret.r.val[3].dropped = call.real_freqs[Len(call.real_freqs)]
        /\ (Len(call.real_freqs) % 2 = 1 /\ Len(call.imag_freqs) # 1)
               => (~ret.r.ok /\ ret.r.exc.type = "ValueError")
        /\ (Len(call.imag_freqs) % 2 = 1 /\ Len(call.imag_freqs) # 1)
               => (~ret.r.ok /\ ret.r.exc.type = "ValueError")
        /\ ret.r.ok
               => 2 * Len(ret.r.val[1]) + (IF ret.r.val[3].t = "str" THEN 1 ELSE 0)
                      + (IF Len(call.imag_freqs) = 1 THEN 1 ELSE 2 * Len(ret.r.val[2]))
                  = Len(call.real_freqs) + Len(call.imag_freqs)

\* three real modes and one imaginary one: the third real mode is dropped
C23_Witness ==
    /\ PairReturned
    /\ call.real_freqs = <<Rat(1, 1), Rat(15, 1), Rat(2, 1)>>
    /\ call.imag_freqs = <<Rat(-15, 1)>>
    /\ ret.r.ok
    /\ ret.r.val = <<<<Rat(8, 1)>>, <<Rat(-15, 1)>>, DroppedNote(Rat(2, 1))>>


---------------------------------------------------------------------------
(* The electronic energy of parse_vasp_frequency and of                     *)
(* parse_vasp_optimization (vasp_freq.py).                                  *)

MaxLines == 3

\* a line of the OUTCAR: an ionic-step energy line ("energy  without
\* entropy= ... energy(sigma->0) = value"), a "free  energy   TOTEN  =
\* value eV" line, or any other line; value is the text float() is given
EnergyLine(kind, value) == [kind |-> kind, value |-> value]
OtherLine == EnergyLine("other", Absent)

\* what reading the structure gives: ASE reads the OUTCAR and has its
\* energy e; ASE fails and the text is parsed instead (no energy); both fail
AseAtoms(e) == [t |-> "ase", e |-> e]
TextAtoms == [t |-> "text", e |-> Zero]
NoAtoms == [t |-> "none", e |-> Zero]

ParseError == Raise("ParseError", <<"ase.io.read">>)
NoLattice == Raise("ValueError", <<"Could not parse lattice vectors from OUTCAR">>)
NoCalculator == Raise("RuntimeError", <<"Atoms object has no calculator.">>)

\* the floats of the lines of a kind whose value float() accepts, in order
RECURSIVE extract_energies(_, _, _)
extract_energies(text, kind, i) ==
    IF i > Len(text) THEN <<>>
    ELSE IF text[i].kind = kind /\ CanFloat(text[i].value)
    THEN <<ToFloat(text[i].value)>> \o extract_energies(text, kind, i + 1)
    ELSE extract_energies(text, kind, i + 1)

extract_ionic_energies(text) == extract_energies(text, "ionic", 1)
extract_total_energies(text) == extract_energies(text, "toten", 1)

\* float(atoms.get_potential_energy())
get_potential_energy(atoms) == IF atoms.t = "ase" THEN Ok(Fl(atoms.e)) ELSE NoCalculator

\* the energy of the last ionic step taken for a frequency calculation
frequency_energy_last(ionic_energies, atoms) ==
    IF ionic_energies # <<>> THEN Ok(ionic_energies[Len(ionic_energies)])
    ELSE get_potential_energy(atoms)

\* lines 442-446
frequency_energy(ionic_energies, atoms) ==
    IF ionic_energies # <<>> THEN Ok(ionic_energies[1]) ELSE get_potential_energy(atoms)

\* lines 517-522
optimization_energy(ionic_energies, total_energies, atoms) ==
    IF ionic_energies # <<>> THEN Ok(ionic_energies[Len(ionic_energies)])
    ELSE IF total_energies # <<>> THEN Ok(total_energies[Len(total_energies)])
    ELSE get_potential_energy(atoms)

\* the part of the returned dictionary that depends on the energy
Parsed(type, electronic_energy) ==
    IF ~electronic_energy.ok THEN electronic_energy
    ELSE Ok([type |-> type, electronic |-> electronic_energy.val])

\* atoms = read(outcar_path) raises when ASE cannot read the file
parse_vasp_frequency(text, atoms) ==
    IF atoms.t # "ase" THEN ParseError
    ELSE Parsed("frequency", frequency_energy(extract_ionic_energies(text), atoms))

\* _read_last_optimization_atoms falls back to the text
parse_vasp_optimization(text, atoms) ==
    IF atoms.t = "none" THEN NoLattice
    ELSE Parsed("optimization",
                optimization_energy(extract_ionic_energies(text),
                                    extract_total_energies(text), atoms))

ParseVaspFrequency ==
    /\ pc = "parse"
    /\ call.fn = "parse_vasp_frequency"
    /\ ret' = [fn |-> call.fn, r |-> parse_vasp_frequency(call.text, call.atoms)]
    /\ pc' = "done"
    /\ UNCHANGED <<disk, doc, states, steps, paths, cur, call>>

ParseVaspOptimization ==
    /\ pc = "parse"
    /\ call.fn = "parse_vasp_optimization"
    /\ ret' = [fn |-> call.fn, r |-> parse_vasp_optimization(call.text, call.atoms)]
    /\ pc' = "done"
    /\ UNCHANGED <<disk, doc, states, steps, paths, cur, call>>

\* ionic-step lines with the energies -1 and -2 and one whose value is
\* not a number, TOTEN lines likewise, and another line
EnergyLines ==
    {EnergyLine("ionic", Num(Rat(-1, 1))), EnergyLine("ionic", Num(Rat(-2, 1))),
     EnergyLine("ionic", Str("********")), EnergyLine("toten", Num(Rat(-3, 1))),
     EnergyLine("toten", Str("********")), OtherLine}

InitEnergy ==
    /\ pc = "parse"
    /\ disk = <<>>
    /\ doc = <<>>
    /\ states = <<>>
    /\ steps = <<>>
    /\ paths = <<>>
    /\ cur = <<>>
    /\ \E fn \in {"parse_vasp_frequency", "parse_vasp_optimization"},
          text \in SeqsUpTo(EnergyLines, MaxLines),
          atoms \in {AseAtoms(Rat(-5, 1)), TextAtoms, NoAtoms} :
           call = [fn |-> fn, text |-> text, atoms |-> atoms]
    /\ ret = NoRet

NextEnergy == ParseVaspFrequency \/ ParseVaspOptimization

SpecEnergy == InitEnergy /\ [][NextEnergy]_vars

---------------------------------------------------------------------------
(* Claims about the electronic energy (checked under SpecEnergy).          *)

\* the lines of a kind, and those of them whose value is a number
LinesOf(text, kind) == SelectSeq(text, LAMBDA l : l.kind = kind)
NumbersOf(text, kind) ==
    SelectSeq(text, LAMBDA l : l.kind = kind /\ l.value.t = "num")

First(lines) == lines[1]
Last(lines) == lines[Len(lines)]

ParseReturned == pc = "done" /\ ret.r.ok

---------------------------------------------------------------------------
(* Claims about the plateaus of build_ped (checked under SpecRun).         *)

PedReturned == pc = "done" /\ call.fn = "build_ped" /\ ret.r.ok

\* C25: the plateau energies of the selected path are the running sums,
\* from 0 and in declaration order, of factor x reaction_heat_total over
\* its step entries, for negative factors too; there is one plateau per
\* entry and the initial one; the last plateau is the total
\* evaluate_paths computes for that path.
C25_PlateauEnergies ==
    PedReturned =>
        /\ Len(ret.r.val.state_energies) = Len(SelectedPath.steps) + 1
        /\ \A k \in 0..Len(SelectedPath.steps) :
               ret.r.val.state_energies[k + 1] = LastStepTotal(SelectedPath.steps, k)
        /\ \E total \in {evaluate_path(SelectedPath, steps_by_name(steps))} :
               /\ total.ok
               /\ ret.r.val.state_energies[Len(SelectedPath.steps) + 1]
                      = total.val.total_reaction_energy

\* build_ped of a path of two entries, the first with the factor -3/2, has
\* drawn three plateaus, the second one above or below the first
C25_Witness ==
    /\ PedReturned
    /\ Len(SelectedPath.steps) = 2
    /\ SelectedPath.steps[1].factor = Num(Rat(-3, 2))
    /\ Len(ret.r.val.state_energies) = 3
    /\ ret.r.val.state_energies[2] # Zero
    /\ ret.r.val.state_energies[3] # ret.r.val.state_energies[2]

---------------------------------------------------------------------------
(* extract_frequencies of vasp_freq.py.                                     *)

MaxModeLines == 4

\* a line of the OUTCAR: marker is "f" for a line holding " f  =", "f/i"
\* for one holding " f/i=" and "" for any other line; index is its first
\* word as int() is given it; value is the number before "cm-1", Absent
\* when the pattern finds none
ModeLine(marker, index, value) == [marker |-> marker, index |-> index, value |-> value]

\* int(parts[0]) succeeds
CanInt(raw) == raw.t = "num" /\ raw.v[2] = 1

\* -abs(value)
imaginary_value(value) == RNeg(RAbs(value))

RECURSIVE frequencies_loop(_, _, _, _, _)
\* a mode line whose index parses and whose value was found, read without
\* the check for the repeated block
mode_line_unstopped(text, i, last_index, real, imaginary) ==
    IF text[i].value.t # "num"
    THEN frequencies_loop(text, i + 1, text[i].index.v[1], real, imaginary)
    ELSE IF text[i].marker = "f/i"
    THEN frequencies_loop(text, i + 1, text[i].index.v[1], real,
                          Append(imaginary, imaginary_value(ToFloat(text[i].value))))
    ELSE frequencies_loop(text, i + 1, text[i].index.v[1],
                          Append(real, ToFloat(text[i].value)), imaginary)

\* lines 228-244: a mode line whose index parses
mode_line(text, i, last_index, real, imaginary) ==
    IF text[i].index.v[1] <= last_index THEN <<real, imaginary>>
    ELSE IF text[i].value.t # "num"
    THEN frequencies_loop(text, i + 1, text[i].index.v[1], real, imaginary)
    ELSE IF text[i].marker = "f/i"
    THEN frequencies_loop(text, i + 1, text[i].index.v[1], real,
                          Append(imaginary, imaginary_value(ToFloat(text[i].value))))
    ELSE frequencies_loop(text, i + 1, text[i].index.v[1],
                          Append(real, ToFloat(text[i].value)), imaginary)

\* the for loop of lines 219-244 from line i on
frequencies_loop(text, i, last_index, real, imaginary) ==
    IF i > Len(text) THEN <<real, imaginary>>
    ELSE IF text[i].marker = "" \/ ~CanInt(text[i].index)
    THEN frequencies_loop(text, i + 1, last_index, real, imaginary)
    ELSE mode_line(text, i, last_index, real, imaginary)

extract_frequencies(text) == frequencies_loop(text, 1, 0, <<>>, <<>>)

ExtractFrequencies ==
    /\ pc = "frequencies"
    /\ ret' = [fn |-> "extract_frequencies", r |-> Ok(extract_frequencies(call.text))]
    /\ pc' = "done"
    /\ UNCHANGED <<disk, doc, states, steps, paths, cur, call>>

\* the modes 1 and 2, real (3 or 4 cm-1) and imaginary (5 cm-1, once
\* written with a sign), a mode line without a value, a line whose first
\* word is not a number, and another line
ModeLines ==
    {ModeLine("f", Num(Rat(1, 1)), Num(Rat(3, 1))), ModeLine("f", Num(Rat(2, 1)), Num(Rat(3, 1))),
     ModeLine("f", Num(Rat(1, 1)), Num(Rat(4, 1))),
     ModeLine("f/i", Num(Rat(1, 1)), Num(Rat(5, 1))),
     ModeLine("f/i", Num(Rat(2, 1)), Num(Rat(5, 1))),
     ModeLine("f/i", Num(Rat(2, 1)), Num(Rat(-5, 1))),
     ModeLine("f", Num(Rat(2, 1)), Absent), ModeLine("f", Str("x"), Num(Rat(3, 1))),
     ModeLine("", Absent, Absent)}

InitFreq ==
    /\ pc = "frequencies"
    /\ disk = <<>>
    /\ doc = <<>>
    /\ states = <<>>
    /\ steps = <<>>
    /\ paths = <<>>
    /\ cur = <<>>
    /\ \E text \in SeqsUpTo(ModeLines, MaxModeLines) :
           call = [fn |-> "extract_frequencies", text |-> text]
    /\ ret = NoRet

NextFreq == ExtractFrequencies

SpecFreq == InitFreq /\ [][NextFreq]_vars

---------------------------------------------------------------------------
(* Claims about extract_frequencies (checked under SpecFreq).              *)

\* the positions of the mode lines: a marker and a numeric index
ModePositions(text) ==
    {i \in 1..Len(text) : text[i].marker # "" /\ text[i].index.t = "num"}

\* the mode line before position i, 0 when there is none
PreviousMode(text, i) ==
    IF \E j \in ModePositions(text) : j < i
    THEN CHOOSE j \in ModePositions(text) :
             j < i /\ \A k \in ModePositions(text) : k < i => k <= j
    ELSE 0

\* the mode lines whose index is not greater than the one before
Repeats(text) ==
    {i \in ModePositions(text) :
         /\ PreviousMode(text, i) # 0
         /\ text[i].index.v[1] <= text[PreviousMode(text, i)].index.v[1]}

\* the mode lines before the first repeat
ReadOnce(text) == {i \in ModePositions(text) : \A r \in Repeats(text) : i < r}

\* the values of the lines of ReadOnce with that marker, in order
ValuesRead(text, marker) ==
    SelectSeq([i \in 1..Len(text) |-> i],
              LAMBDA i : i \in ReadOnce(text) /\ text[i].marker = marker
                             /\ text[i].value.t = "num")

FreqReturned == pc = "done" /\ ret.fn = "extract_frequencies"

\* C26: the scan stops at the first mode line whose index is not greater
\* than that of the mode line before it: the indices read are strictly
\* increasing, the real modes returned are the values of the f lines read
\* until then, as given, the imaginary modes those of the f/i lines as
\* minus their magnitude, and no line from the stop on is recorded.
C26_ReadOnce ==
    FreqReturned =>
        /\ \A i, j \in ReadOnce(call.text) :
               i < j => call.text[i].index.v[1] < call.text[j].index.v[1]
        /\ Len(ret.r.val[1]) = Len(ValuesRead(call.text, "f"))
        /\ \A k \in 1..Len(ret.r.val[1]) :
               ret.r.val[1][k] = Fl(call.text[ValuesRead(call.text, "f")[k]].value.v)
        /\ Len(ret.r.val[2]) = Len(ValuesRead(call.text, "f/i"))
        /\ \A k \in 1..Len(ret.r.val[2]) :
               /\ ret.r.val[2][k]
                      = RNeg(RAbs(Fl(call.text[ValuesRead(call.text, "f/i")[k]].value.v)))
               /\ RLess(ret.r.val[2][k], Zero)

\* the list f 1, f/i 2 printed twice is read once
C26_Witness ==
    /\ FreqReturned
    /\ call.text = <<ModeLine("f", Num(Rat(1, 1)), Num(Rat(3, 1))),
                     ModeLine("f/i", Num(Rat(2, 1)), Num(Rat(5, 1))),
                     ModeLine("f", Num(Rat(1, 1)), Num(Rat(3, 1))),
                     ModeLine("f/i", Num(Rat(2, 1)), Num(Rat(5, 1)))>>
    /\ ret.r.val = <<(<<Rat(3, 1)>>), (<<Rat(-5, 1)>>)>>

---------------------------------------------------------------------------
(* clean_none of yaml_writer.py.                                            *)

MaxItems == 2

\* a Python value: None, a number, a dict (items: its entries in order,
\* each with a key k and a value val), a list or an InlineList (items: its
\* elements)
PyNone == [t |-> "none", v |-> 0, items |-> <<>>]
PyInt(v) == [t |-> "int", v |-> v, items |-> <<>>]
PyDict(items) == [t |-> "dict", v |-> 0, items |-> items]
PyList(items) == [t |-> "list", v |-> 0, items |-> items]
InlineList(items) == [t |-> "InlineList", v |-> 0, items |-> items]
Item(k, val) == [k |-> k, val |-> val]

\* the entries of a dict whose value is not None, in order
Kept(items) == SelectSeq(items, LAMBDA it : it.val # PyNone)

\* the elements of a list, none of them None
Filtered(items) == SelectSeq(items, LAMBDA it : it # PyNone)

\* lines 49-60
RECURSIVE clean_none(_)
clean_none(d) ==
    IF d.t = "dict"
    THEN PyDict([k \in 1..Len(Kept(d.items)) |->
                    Item(Kept(d.items)[k].k, clean_none(Kept(d.items)[k].val))])
    ELSE IF d.t = "InlineList"
    THEN InlineList([k \in 1..Len(d.items) |-> clean_none(d.items[k])])
    ELSE IF d.t = "list"
    THEN PyList([k \in 1..Len(d.items) |-> clean_none(d.items[k])])
    ELSE d

CleanNone ==
    /\ pc = "clean"
    /\ ret' = [fn |-> "clean_none", r |-> Ok(clean_none(call.d))]
    /\ pc' = "done"
    /\ UNCHANGED <<disk, doc, states, steps, paths, cur, call>>

\* the entries of a dict over the values vals: keys "a", "b", ... in order
Keyed(vals) == [k \in 1..Len(vals) |-> Item(<<"a", "b", "c">>[k], vals[k])]

\* every dict, list and InlineList over the sequences seqs of values
Containers(seqs) ==
    {PyDict(Keyed(vals)) : vals \in seqs} \cup {PyList(vals) : vals \in seqs}
        \cup {InlineList(vals) : vals \in seqs}

Scalars == {PyNone, PyInt(1)}

\* None, a number and the containers of at most one of them
Inner == Scalars \cup Containers(SeqsUpTo(Scalars, 1))

\* the values given to clean_none: the containers of up to MaxItems
\* values of Inner, and None and a number themselves
PyValues == Scalars \cup Containers(SeqsUpTo(Inner, MaxItems))

InitClean ==
    /\ pc = "clean"
    /\ disk = <<>>
    /\ doc = <<>>
    /\ states = <<>>
    /\ steps = <<>>
    /\ paths = <<>>
    /\ cur = <<>>
    /\ \E d \in PyValues : call = [fn |-> "clean_none", d |-> d]
    /\ ret = NoRet

NextClean == CleanNone

SpecClean == InitClean /\ [][NextClean]_vars

---------------------------------------------------------------------------
(* Claims about clean_none (checked under SpecClean).                      *)

\* the values held by a value: the values of a dict, the elements of a list
Held(d) ==
    IF d.t = "dict" THEN {d.items[k].val : k \in 1..Len(d.items)}
    ELSE {d.items[k] : k \in 1..Len(d.items)}

\* no value held at any depth is None
RECURSIVE NoNoneIn(_)
NoNoneIn(d) == \A x \in Held(d) : x # PyNone /\ NoNoneIn(x)

\* d with its None values and items taken out at every depth
RECURSIVE Cleaned(_)
Cleaned(d) ==
    IF d.t = "dict"
    THEN PyDict([k \in 1..Len(Kept(d.items)) |->
                    Item(Kept(d.items)[k].k, Cleaned(Kept(d.items)[k].val))])
    ELSE IF d.t \in {"list", "InlineList"}
    THEN [t |-> d.t, v |-> 0,
          items |-> [k \in 1..Len(Filtered(d.items)) |-> Cleaned(Filtered(d.items)[k])]]
    ELSE d

CleanReturned == pc = "done" /\ ret.fn = "clean_none"

\* C27: clean_none removes every key and every list item whose value is
\* None, at every depth: a container comes back as the same kind of
\* container (an InlineList as an InlineList) without the None values and
\* items, and holds no None at any depth.
C27_NoNoneAnywhere ==
    CleanReturned =>
        /\ ret.r.val = Cleaned(call.d)
        /\ NoNoneIn(ret.r.val)

---------------------------------------------------------------------------
(* Claims about the decomposition of the totals (checked under SpecStep).  *)

\* no operation that produced the totals and the heats of the step from
\* its electronic and ZPE values has rounded
Unrounded(step) ==
    /\ IsFloat(RAdd(step.forward_barrier_electronic, step.forward_zpe_correction))
    /\ IsFloat(RAdd(step.reverse_barrier_electronic, step.reverse_zpe_correction))
    /\ IsFloat(RSub(step.forward_barrier_electronic, step.reverse_barrier_electronic))
    /\ IsFloat(RSub(step.forward_zpe_correction, step.reverse_zpe_correction))
    /\ IsFloat(RSub(step.forward_total_barrier, step.reverse_total_barrier))

\* C28: for every step returned, of either type, each total barrier is
\* the (correctly rounded) sum of its electronic and its ZPE part, and
\* where the arithmetic is exact the forward total, the reverse total and
\* the total reaction heat are exactly the sums of their two parts.
C28_Decomposition ==
    \A i \in 1..Len(steps) :
        /\ steps[i].forward_total_barrier
               = Fl(RAdd(steps[i].forward_barrier_electronic, steps[i].forward_zpe_correction))
        /\ steps[i].reverse_total_barrier
               = Fl(RAdd(steps[i].reverse_barrier_electronic, steps[i].reverse_zpe_correction))
        /\ Unrounded(steps[i]) =>
               /\ steps[i].forward_total_barrier
                      = RAdd(steps[i].forward_barrier_electronic,
                             steps[i].forward_zpe_correction)
               /\ steps[i].reverse_total_barrier
                      = RAdd(steps[i].reverse_barrier_electronic,
                             steps[i].reverse_zpe_correction)
               /\ steps[i].reaction_heat_total
                      = RAdd(steps[i].reaction_heat_electronic,
                             steps[i].reaction_heat_zpe_correction)

\* a surf step computed without rounding whose barriers and heats all have
\* an electronic and a ZPE part
C28_Witness ==
    /\ Len(steps) = 1
    /\ steps[1].step_type = "surf"
    /\ Unrounded(steps[1])
    /\ steps[1].forward_zpe_correction # Zero
    /\ steps[1].reverse_zpe_correction # Zero
    /\ steps[1].reverse_barrier_electronic # Zero
    /\ steps[1].reaction_heat_electronic # Zero
    /\ steps[1].reaction_heat_zpe_correction # Zero
    /\ steps[1].reaction_heat_total # steps[1].forward_total_barrier
    /\ steps[1].reaction_heat_total
           = RAdd(steps[1].reaction_heat_electronic, steps[1].reaction_heat_zpe_correction)

\* an ads step computed without rounding whose heat has both parts
C28_AdsWitness ==
    /\ Len(steps) = 1
    /\ steps[1].step_type = "ads"
    /\ Unrounded(steps[1])
    /\ steps[1].reaction_heat_electronic # Zero
    /\ steps[1].reaction_heat_zpe_correction # Zero

---------------------------------------------------------------------------
(* read_network over surf steps whose two blocks share their transition    *)
(* states.                                                                  *)

\* IS and FS as before; a transition state of energy e and ZPE z; any
\* flag paired or not
CancelStateMaps ==
    {[n \in Names |-> State(n, n,
                            CASE n = "IS" -> Rat(-1, 1) [] n = "TS" -> e [] OTHER -> Rat(-2, 1),
                            CASE n = "IS" -> Rat(1, 2) [] n = "TS" -> z [] OTHER -> Rat(1, 4),
                            n \in P)] :
        e \in {Rat(3, 4), Rat(5, 1), Rat(1, 8)}, z \in {Rat(3, 2), Rat(3, 8)},
        P \in SUBSET Names}

CancelTsLists == {<<>>, <<Term("TS", Absent)>>, <<Term("TS", Num(Rat(-3, 2)))>>}
CancelIsLists ==
    {<<Term("IS", Absent)>>, <<Term("FS", Absent)>>, <<Term("IS", Absent), Term("FS", Absent)>>}
CancelNormalizations == {Absent, Num(Rat(2, 1)), Num(Rat(3, 1))}

\* surf steps with the same ts terms in both blocks, each block with its
\* own initial states and normalization
CancelDefs ==
    {SurfStep(Str("s1"), Absent, Dir(ts, isf, nf), Dir(ts, isb, nb)) :
         ts \in CancelTsLists, isf \in CancelIsLists, isb \in CancelIsLists,
         nf \in CancelNormalizations, nb \in CancelNormalizations}

InitCancel ==
    /\ pc = "network"
    /\ disk = <<>>
    /\ \E d \in CancelDefs : doc = [network |-> <<d>>]
    /\ states \in CancelStateMaps
    /\ steps = <<>>
    /\ paths = <<>>
    /\ cur = [i |-> 1]
    /\ call = [fn |-> "read_network"]
    /\ ret = NoRet

NextCancel == ReadNetworkStep \/ ReadNetworkReturn

SpecCancel == InitCancel /\ [][NextCancel]_vars

---------------------------------------------------------------------------
(* Claims about the cancellation of the transition states (checked under   *)
(* SpecCancel).                                                             *)

\* the sums over the first k terms in exact arithmetic
RECURSIVE ExactEnergySum(_, _, _)
ExactEnergySum(terms, sts, k) ==
    IF k = 0 THEN Zero
    ELSE RAdd(ExactEnergySum(terms, sts, k - 1),
              RMul(StoichOf(terms[k]), sts[terms[k].name].electronic_energy))

ExactZpeTerm(term, sts, n) ==
    IF sts[term.name].paired_modes_averaged
    THEN RMul(StoichOf(term), sts[term.name].zpe_energy)
    ELSE RDiv(RMul(StoichOf(term), sts[term.name].zpe_energy), n)

RECURSIVE ExactZpeSum(_, _, _, _)
ExactZpeSum(terms, sts, n, k) ==
    IF k = 0 THEN Zero
    ELSE RAdd(ExactZpeSum(terms, sts, n, k - 1), ExactZpeTerm(terms[k], sts, n))

ExactElectronic(d, sts) ==
    RDiv(RSub(ExactEnergySum(d.ts, sts, Len(d.ts)), ExactEnergySum(d.is, sts, Len(d.is))),
         NormOf(d.normalization))

ExactZpeCorrection(d, sts) ==
    RSub(ExactZpeSum(d.ts, sts, NormOf(d.normalization), Len(d.ts)),
         ExactZpeSum(d.is, sts, NormOf(d.normalization), Len(d.is)))

\* every product, quotient and partial sum of the two sums over the terms
\* is a float: nothing is rounded when they are computed
SumsUnrounded(terms, sts, n) ==
    \A k \in 1..Len(terms) :
        /\ IsFloat(RMul(StoichOf(terms[k]), sts[terms[k].name].electronic_energy))
        /\ IsFloat(ExactEnergySum(terms, sts, k))
        /\ IsFloat(RMul(StoichOf(terms[k]), sts[terms[k].name].zpe_energy))
        /\ IsFloat(ExactZpeTerm(terms[k], sts, n))
        /\ IsFloat(ExactZpeSum(terms, sts, n, k))

\* nothing is rounded in the barrier of a block
BlockUnrounded(d, sts) ==
    /\ SumsUnrounded(d.ts, sts, NormOf(d.normalization))
    /\ SumsUnrounded(d.is, sts, NormOf(d.normalization))
    /\ IsFloat(RSub(ExactEnergySum(d.ts, sts, Len(d.ts)),
                    ExactEnergySum(d.is, sts, Len(d.is))))
    /\ IsFloat(ExactElectronic(d, sts))
    /\ IsFloat(ExactZpeCorrection(d, sts))

\* nothing is rounded in the heats of a surf step
HeatsUnrounded(step, sts) ==
    /\ BlockUnrounded(step.forward, sts)
    /\ BlockUnrounded(step.backward, sts)
    /\ IsFloat(RSub(ExactElectronic(step.forward, sts), ExactElectronic(step.backward, sts)))
    /\ IsFloat(RSub(ExactZpeCorrection(step.forward, sts),
                    ExactZpeCorrection(step.backward, sts)))

\* a surf step whose blocks have the same ts terms
SharedTs(i) == steps[i].step_type = "surf" /\ doc.network[i].forward.ts = doc.network[i].backward.ts

SameNormalization(i) ==
    NormOf(doc.network[i].forward.normalization) = NormOf(doc.network[i].backward.normalization)

\* (sum over backward.is - sum over forward.is) / n in floats, and
\* sum_zpe(backward.is) - sum_zpe(forward.is)
HeatOfInitialStates(step, sts) ==
    <<FDiv(FSub(RuleEnergySum(step.backward.is, sts, Len(step.backward.is)),
                RuleEnergySum(step.forward.is, sts, Len(step.forward.is))),
           NormOf(step.forward.normalization)),
      FSub(sum_zpe(step.backward.is, sts, NormOf(step.forward.normalization)).val[1],
           sum_zpe(step.forward.is, sts, NormOf(step.forward.normalization)).val[1])>>

\* the same in exact arithmetic
ExactHeatOfInitialStates(step, sts) ==
    <<RDiv(RSub(ExactEnergySum(step.backward.is, sts, Len(step.backward.is)),
                ExactEnergySum(step.forward.is, sts, Len(step.forward.is))),
           NormOf(step.forward.normalization)),
      RSub(ExactZpeSum(step.backward.is, sts, NormOf(step.forward.normalization),
                       Len(step.backward.is)),
           ExactZpeSum(step.forward.is, sts, NormOf(step.forward.normalization),
                       Len(step.forward.is)))>>

\* C29 as stated: with the same ts terms and the same normalization n in
\* both blocks the electronic heat is (sum over backward.is - sum over
\* forward.is) / n and the ZPE heat is sum_zpe(backward.is) -
\* sum_zpe(forward.is), whatever the transition states are.
C29_HeatIndependentOfTs ==
    \A i \in 1..Len(steps) :
        (SharedTs(i) /\ SameNormalization(i)) =>
            /\ steps[i].reaction_heat_electronic
                   = HeatOfInitialStates(doc.network[i], states)[1]
            /\ steps[i].reaction_heat_zpe_correction
                   = HeatOfInitialStates(doc.network[i], states)[2]

\* C29 (amended): the same in exact arithmetic, that is whenever no
\* operation of the evaluation rounds.
C29_Cancellation ==
    \A i \in 1..Len(steps) :
        (SharedTs(i) /\ SameNormalization(i) /\ HeatsUnrounded(doc.network[i], states)) =>
            /\ steps[i].reaction_heat_electronic
                   = ExactHeatOfInitialStates(doc.network[i], states)[1]
            /\ steps[i].reaction_heat_zpe_correction
                   = ExactHeatOfInitialStates(doc.network[i], states)[2]

\* a step with a transition state in both blocks, normalization 2 and
\* different initial states, evaluated without rounding: its heats are not
\* zero and do not show the transition state
C29_Witness ==
    /\ Len(steps) = 1
    /\ SharedTs(1) /\ SameNormalization(1)
    /\ HeatsUnrounded(doc.network[1], states)
    /\ Len(doc.network[1].forward.ts) = 1
    /\ doc.network[1].forward.normalization = Num(Rat(2, 1))
    /\ ~states["TS"].paired_modes_averaged
    /\ steps[1].forward_barrier_electronic # Zero
    /\ steps[1].reaction_heat_electronic # Zero
    /\ steps[1].reaction_heat_zpe_correction # Zero
    /\ steps[1].reaction_heat_electronic = ExactHeatOfInitialStates(doc.network[1], states)[1]

\* with the normalizations 1 and 2 and nothing rounded the transition
\* state does not cancel
C29_DifferentNormalizations ==
    /\ Len(steps) = 1
    /\ SharedTs(1) /\ ~SameNormalization(1)
    /\ HeatsUnrounded(doc.network[1], states)
    /\ steps[1].reaction_heat_electronic
           # RSub(RDiv(ExactEnergySum(doc.network[1].backward.is, states,
                                      Len(doc.network[1].backward.is)),
                       NormOf(doc.network[1].backward.normalization)),
                  RDiv(ExactEnergySum(doc.network[1].forward.is, states,
                                      Len(doc.network[1].forward.is)),
                       NormOf(doc.network[1].forward.normalization)))

---------------------------------------------------------------------------
(* read_network over steps with absent blocks and with parts their type    *)
(* does not read.                                                           *)

\* a block that is absent, one without `ts`, one without `is`, a full one
SomeBlocks ==
    {EmptyDir, BaseDir, Dir(<<>>, <<Term("IS", Absent)>>, Absent),
     Dir(<<Term("TS", Absent)>>, <<>>, Num(Rat(2, 1)))}

\* a block naming the state XS that no file declares, with a
\* stoichiometry and a normalization that are not valid
BrokenDir == Dir(<<Term("XS", Absent)>>, <<Term("IS", Str("two"))>>, Num(Zero))

\* surf steps with any two of the blocks and top-level fs, is and
\* normalization; ads steps with forward and backward blocks
IgnoredDefs ==
    {StepDef(Str("s1"), t, f, b, fs, is, n) :
         t \in {Absent, Str("surf")}, f \in SomeBlocks, b \in SomeBlocks,
         fs \in {<<>>, <<Term("XS", Absent)>>, <<Term("FS", Absent)>>},
         is \in {<<>>, <<Term("IS", Str("two"))>>},
         n \in {Absent, Num(Zero), Str("two")}}
        \cup {StepDef(Str("s1"), Str("ads"), f, b, d.ts, d.is, d.normalization) :
                  f \in {EmptyDir, BaseDir, BrokenDir}, b \in {EmptyDir, BaseDir, BrokenDir},
                  d \in {EmptyDir, Dir(<<Term("FS", Absent)>>, <<Term("IS", Absent)>>, Absent),
                         Dir(<<Term("TS", Absent)>>, <<Term("IS", Absent)>>, Num(Rat(3, 1)))}}

InitIgnored ==
    /\ pc = "network"
    /\ disk = <<>>
    /\ \E d \in IgnoredDefs : doc = [network |-> <<d>>]
    /\ states \in StepStateMaps
    /\ steps = <<>>
    /\ paths = <<>>
    /\ cur = [i |-> 1]
    /\ call = [fn |-> "read_network"]
    /\ ret = NoRet

NextIgnored == ReadNetworkStep \/ ReadNetworkReturn

SpecIgnored == InitIgnored /\ [][NextIgnored]_vars

---------------------------------------------------------------------------
(* Claims about absent and ignored parts (checked under SpecIgnored).      *)

\* the term cannot be evaluated: unknown state or invalid stoichiometry
TermFails(term) ==
    term.name \notin DOMAIN states \/ term.stoichiometry.t \notin {"absent", "num"}

\* the block (or the fs, is and normalization of an ads step) cannot be
\* evaluated
BlockFails(ts, is, normalization) ==
    \/ \E k \in 1..Len(ts) : TermFails(ts[k])
    \/ \E k \in 1..Len(is) : TermFails(is[k])
    \/ BadNormalization(normalization)

\* the three values of a direction
ValuesAre(electronic, zpe, total, ts, is, normalization) ==
    /\ electronic = RuleElectronic(ts, is, NormOf(normalization), states)
    /\ zpe = RuleZpeCorrection(ts, is, NormOf(normalization), states)
    /\ total = FAdd(electronic, zpe)

\* the forward and the reverse values of a surf step come from the two
\* blocks alone, and are 0 for an absent block
SurfFromBlocks(step, result) ==
    /\ ValuesAre(result.forward_barrier_electronic, result.forward_zpe_correction,
                 result.forward_total_barrier,
                 step.forward.ts, step.forward.is, step.forward.normalization)
    /\ ValuesAre(result.reverse_barrier_electronic, result.reverse_zpe_correction,
                 result.reverse_total_barrier,
                 step.backward.ts, step.backward.is, step.backward.normalization)
    /\ step.forward = EmptyDir =>
           /\ result.forward_barrier_electronic = Zero
           /\ result.forward_zpe_correction = Zero
           /\ result.forward_total_barrier = Zero
    /\ step.backward = EmptyDir =>
           /\ result.reverse_barrier_electronic = Zero
           /\ result.reverse_zpe_correction = Zero
           /\ result.reverse_total_barrier = Zero

\* the values of an ads step come from its fs, is and normalization alone
AdsFromTopLevel(step, result) ==
    /\ ValuesAre(result.forward_barrier_electronic, result.forward_zpe_correction,
                 result.forward_total_barrier, step.fs, step.is, step.normalization)
    /\ result.reverse_total_barrier = Zero
    /\ result.reaction_heat_total = result.forward_total_barrier

\* C30: a surf step is evaluated from its forward and backward blocks
\* alone: an absent block or list inside it raises nothing and counts as
\* empty with normalization 1 (the direction's values are 0 for an absent
\* block), and nothing in the top-level is, fs and normalization makes
\* it fail or changes a value; an ads step is evaluated from its fs, is
\* and normalization alone, whatever its forward and backward blocks hold.
C30_AbsentAndIgnored ==
    \A i \in 1..Len(doc.network) :
        Evaluated(i) =>
            IF DeclaredType(doc.network[i]) = "surf"
            THEN /\ (/\ ~BlockFails(doc.network[i].forward.ts, doc.network[i].forward.is,
                                    doc.network[i].forward.normalization)
                     /\ ~BlockFails(doc.network[i].backward.ts, doc.network[i].backward.is,
                                    doc.network[i].backward.normalization))
                        => Produced(i)
                 /\ Produced(i) => SurfFromBlocks(doc.network[i], steps[i])
            ELSE /\ ~BlockFails(doc.network[i].fs, doc.network[i].is,
                                doc.network[i].normalization) => Produced(i)
                 /\ Produced(i) => AdsFromTopLevel(doc.network[i], steps[i])

\* a surf step without a forward block whose top-level fs names the
\* undeclared XS, whose top-level is has an invalid stoichiometry and whose
\* top-level normalization is 0 has been evaluated: forward values 0
C30_Witness ==
    /\ Len(steps) = 1
    /\ steps[1].step_type = "surf"
    /\ doc.network[1].forward = EmptyDir
    /\ doc.network[1].backward = BaseDir
    /\ doc.network[1].fs = <<Term("XS", Absent)>>
    /\ doc.network[1].is = <<Term("IS", Str("two"))>>
    /\ doc.network[1].normalization = Num(Zero)
    /\ steps[1].forward_total_barrier = Zero
    /\ steps[1].reverse_total_barrier # Zero
    /\ steps[1].reaction_heat_total # Zero

\* an ads step whose forward and backward blocks are broken has been
\* evaluated
C30_AdsWitness ==
    /\ Len(steps) = 1
    /\ steps[1].step_type = "ads"
    /\ doc.network[1].forward = BrokenDir
    /\ doc.network[1].backward = BrokenDir
    /\ steps[1].reaction_heat_total # Zero

===========================================================================
